---- MODULE Spec2Model ----
(***************************************************************************)
(* Model of the orchestration core of igsaw-puzzle-app:                    *)
(*   - the batch orchestrator generateAllPuzzlePieces (stores/jigsawBridge) *)
(*   - runQwenImageEdit (stores/comfyui) with queuePromptWS,               *)
(*     waitUntilFinishedWS, waitForOutputs, buildAssetUrls (services/comfy)*)
(*   - the preparation of a concrete graph from the workflow template      *)
(*   - runPromptAndStreamImages and submitPrompt (services/comfy)           *)
(* JavaScript is single threaded: every action below is one synchronous    *)
(* block of code, from one suspension point (await) to the next.           *)
(***************************************************************************)
EXTENDS Integers, Sequences, FiniteSets, TLC

\* ------------------------------------------------------------------ bounds
MaxPieces == 2      \* largest number of subjects the vision service reports
MaxMsgs == 2        \* frames delivered to one waitUntilFinishedWS call
MaxRuns == 1        \* calls of generateAllPuzzlePieces in one behaviour
MaxRequests == 2    \* graph preparations in one behaviour (SpecGraph)
MaxLatency == 1     \* longest time one history request takes, in poll intervals
MaxFrames == 3      \* frames delivered to one runPromptAndStreamImages call
MaxFiles == 2       \* image descriptors of one node of an outputs record
MaxLines == 3      \* lines of a vision reply
MaxPrompts == 2     \* prompts of one runSdxlWithPrompts call
MaxOverlap == 2     \* calls of one store operation in flight at once
MaxObjects == 3     \* piece objects created in one behaviour
MaxPolls == 2       \* polls answered "not ready" before outputs show or a request hangs

\* --------------------------------------------------------- program constants
\* waitForOutputs defaults, in milliseconds
pollMs == 1500
timeoutMs == 5 * 60000
\* the times one history request may take: whole poll intervals
Latencies == {k * pollMs : k \in 0..MaxLatency}
\* comfy.ts 129: raw.slice(8), the length of the header of a binary frame
headerBytes == 8

\* ------------------------------------------------------------ JS values
Undefined == "<undefined>"
Null == "<null>"
\* JavaScript truthiness of a string-or-absent value (booleans are written
\* "true" / "false")
Truthy(v) == v \notin {Undefined, Null, "", "false"}
\* property read on an object: a missing property reads as undefined
Get(obj, key) == IF key \in DOMAIN obj THEN obj[key] ELSE Undefined

\* ------------------------------------------------------------ strings
\* A filename is a sequence of characters (UTF-16 code units). A character of
\* Basic Latin is written as itself (the grave accent, which a string of the
\* module cannot hold, as "U+0060"), one of the Latin-1 Supplement by its code point:
\* "U+00C9" is the capital E with acute.
UpperCase ==
  <<"A", "B", "C", "D", "E", "F", "G", "H", "I", "J", "K", "L", "M", "N", "O", "P", "Q",
    "R", "S", "T", "U", "V", "W", "X", "Y", "Z",
    "U+00C0", "U+00C1", "U+00C2", "U+00C3", "U+00C4", "U+00C5", "U+00C6", "U+00C7",
    "U+00C8", "U+00C9", "U+00CA", "U+00CB", "U+00CC", "U+00CD", "U+00CE", "U+00CF",
    "U+00D0", "U+00D1", "U+00D2", "U+00D3", "U+00D4", "U+00D5", "U+00D6", "U+00D8",
    "U+00D9", "U+00DA", "U+00DB", "U+00DC", "U+00DD", "U+00DE">>
\* the lower case of UpperCase[j] is LowerCase[j]
LowerCase ==
  <<"a", "b", "c", "d", "e", "f", "g", "h", "i", "j", "k", "l", "m", "n", "o", "p", "q",
    "r", "s", "t", "u", "v", "w", "x", "y", "z",
    "U+00E0", "U+00E1", "U+00E2", "U+00E3", "U+00E4", "U+00E5", "U+00E6", "U+00E7",
    "U+00E8", "U+00E9", "U+00EA", "U+00EB", "U+00EC", "U+00ED", "U+00EE", "U+00EF",
    "U+00F0", "U+00F1", "U+00F2", "U+00F3", "U+00F4", "U+00F5", "U+00F6", "U+00F8",
    "U+00F9", "U+00FA", "U+00FB", "U+00FC", "U+00FD", "U+00FE">>
\* the characters of the two blocks that have no other lower case: digits,
\* punctuation, signs, the small letters without a capital in the two blocks
\* (sharp s; y with diaeresis, whose capital is U+0178)
Uncased ==
  {"0", "1", "2", "3", "4", "5", "6", "7", "8", "9",
   " ", "!", "\"", "#", "$", "%", "&", "'", "(", ")", "*", "+", ",", "-", ".", "/", ":",
   ";", "<", "=", ">", "?", "@", "[", "\\", "]", "^", "_", "U+0060", "{", "|", "}", "~",
   "U+00A0", "U+00A1", "U+00A2", "U+00A3", "U+00A4", "U+00A5", "U+00A6", "U+00A7",
   "U+00A8", "U+00A9", "U+00AA", "U+00AB", "U+00AC", "U+00AD", "U+00AE", "U+00AF",
   "U+00B0", "U+00B1", "U+00B2", "U+00B3", "U+00B4", "U+00B5", "U+00B6", "U+00B7",
   "U+00B8", "U+00B9", "U+00BA", "U+00BB", "U+00BC", "U+00BD", "U+00BE", "U+00BF",
   "U+00D7", "U+00DF", "U+00F7", "U+00FF"}
\* The alphabet of the model: the printable characters of Basic Latin and of the
\* Latin-1 Supplement (U+0020-U+007E, U+00A0-U+00FF).
\* String.prototype.toLowerCase also maps the capital letters of every other
\* script (and U+0130 to two code units); those characters are outside the
\* alphabet and LowerOf is not defined on them.
Chars == {UpperCase[j] : j \in 1..Len(UpperCase)} \cup {LowerCase[j] : j \in 1..Len(LowerCase)}
           \cup Uncased
LowerOf ==
  [c \in Chars |->
     IF \E j \in 1..Len(UpperCase) : UpperCase[j] = c
     THEN LowerCase[CHOOSE j \in 1..Len(UpperCase) : UpperCase[j] = c]
     ELSE c]
\* String.prototype.toLowerCase: A-Z and the capital letters U+00C0-U+00DE
\* (U+00D7, the multiplication sign, is none) move up by 32; the rest stays
toLowerCase(str) == [k \in 1..Len(str) |-> LowerOf[str[k]]]
endsWith(str, suffix) ==
  /\ Len(suffix) <= Len(str)
  /\ SubSeq(str, Len(str) - Len(suffix) + 1, Len(str)) = suffix

\* ------------------------------------------------------------ buildAssetUrls
\* An outputs record is given as the sequence of its entries, in key order:
\* <<node, images>> with images a sequence of descriptors (functions with the
\* keys filename and, optionally, subfolder and type).
isVideo(filename) ==
  LET lower == toLowerCase(filename)
  IN endsWith(lower, <<".", "m", "p", "4">>)
       \/ endsWith(lower, <<".", "w", "e", "b", "m">>)
       \/ endsWith(lower, <<".", "m", "o", "v">>)
assetOf(node, f) ==
  [type |-> IF isVideo(f.filename) THEN "video" ELSE "image",
   url |-> [path |-> "/comfy/view",
            filename |-> f.filename,
            subfolder |-> IF Truthy(Get(f, "subfolder")) THEN f.subfolder ELSE "",
            type |-> IF Truthy(Get(f, "type")) THEN f.type ELSE "output"],
   node |-> node,
   filename |-> f.filename]
RECURSIVE buildAssetUrls(_)
buildAssetUrls(outputs) ==
  IF outputs = <<>> THEN <<>>
  ELSE LET node == Head(outputs)[1]
           files == Head(outputs)[2]
       IN [k \in 1..Len(files) |-> assetOf(node, files[k])]
            \o buildAssetUrls(Tail(outputs))
\* assets.filter((a) => a.type === 'image').map((a) => a.url)
RECURSIVE imageUrls(_)
imageUrls(assets) ==
  IF assets = <<>> THEN <<>>
  ELSE (IF Head(assets).type = "image" THEN <<Head(assets).url>> ELSE <<>>)
         \o imageUrls(Tail(assets))

\* outputs records the history endpoint may hold for a finished job
PngA == [filename |-> <<"a", ".", "P", "N", "G">>, subfolder |-> "", type |-> "output"]
PngB == [filename |-> <<"b", ".", "p", "n", "g">>]
Mp4 == [filename |-> <<"c", ".", "m", "p", "4">>, subfolder |-> "", type |-> "output"]
OutputsChoices ==
  { <<>>,                                   \* outputs: {}
    << <<"60", <<PngA>> >> >>,               \* one image
    << <<"60", <<Mp4>> >> >>,                \* one video
    << <<"60", <<PngA, PngB>> >> >> }        \* two images

\* ------------------------------------------------------------ remote replies
NoResponse == [kind |-> "none"]
\* what the remote may answer to POST /prompt when it hands out the id job
FailTexts == {"", "invalid prompt", "server error"}
\* a success reply carries a JSON body with the id of the queued job, a JSON
\* body without prompt_id (the destructured id is undefined), or a body that is
\* no JSON; prompt id -1 stands for undefined
NoPromptId == -1
PostReplies(job) ==
  { [ok |-> TRUE, status |-> 200, prompt_id |-> job],
    [ok |-> TRUE, status |-> 200, prompt_id |-> NoPromptId],
    [ok |-> TRUE, status |-> 200, text |-> "<html>"] }
    \cup { [ok |-> FALSE, status |-> st, text |-> t] : st \in {400, 500}, t \in FailTexts }
\* comfy.ts 39: res.json() resolves when the body is JSON
IsJson(reply) == "prompt_id" \in DOMAIN reply
\* the remote queued a job and handed out its id
Queues(reply) == reply.ok /\ IsJson(reply) /\ reply.prompt_id # NoPromptId
\* the replies of a batch: the job is queued, or the server fails
TypicalPostReplies(job) ==
  {r \in PostReplies(job) : Queues(r) \/ (~r.ok /\ r.status = 500 /\ r.text = "server error")}
\* what the history endpoint may answer to GET /history/<job>: a non-success
\* status, or a record from job ids to history entries; an entry of a job that
\* has not finished has no outputs
OtherEntry == [prompt |-> <<>>, outputs |-> << <<"9", <<PngB>> >> >>]
EntryChoices ==
  { [prompt |-> <<>>] } \cup { [prompt |-> <<>>, outputs |-> o] : o \in OutputsChoices }
HistoryReplies(job) ==
  { [ok |-> FALSE, status |-> 404], [ok |-> TRUE, status |-> 200, text |-> "<html>"] }
    \cup { [ok |-> TRUE, status |-> 200,
           data |-> [j \in S |-> IF j = job THEN e ELSE OtherEntry]] :
             S \in SUBSET {job, job - 1}, e \in EntryChoices }
\* a request answered at once, or one that hangs for as long as the whole call
\* may take
TypicalLatency == {0, timeoutMs}
\* comfy.ts 189: res.json() resolves when the body is JSON
IsRecord(reply) == "data" \in DOMAIN reply
\* the replies of a batch: a non-success status, a body that is no JSON, an empty
\* record, or the entry of the job with no output or with one image
TypicalHistoryReplies(job) ==
  {r \in HistoryReplies(job) :
     \/ ~r.ok
     \/ ~IsRecord(r)
     \/ IsRecord(r) /\ r.data = <<>>
     \/ /\ IsRecord(r) /\ DOMAIN r.data = {job} /\ "outputs" \in DOMAIN r.data[job]
        /\ r.data[job].outputs \in {<<>>, << <<"60", <<PngA>> >> >>}}
\* comfy.ts 188-191: res.ok && data[promptId]?.outputs (an outputs record, even
\* an empty one, is an object and so truthy)
PollReturns(reply, tracked) ==
  /\ reply.ok /\ IsRecord(reply)
  /\ tracked \in DOMAIN reply.data
  /\ "outputs" \in DOMAIN reply.data[tracked]
\* a variant that returns the outputs of whichever entry of the reply has some
PollValueAnyEntry(reply, tracked) ==
  reply.data[CHOOSE j \in DOMAIN reply.data : "outputs" \in DOMAIN reply.data[j]].outputs
\* comfy.ts 190-192: return entry.outputs
PollValue(reply, tracked) == reply.data[tracked].outputs

\* The calls of generateAllPuzzlePieces in flight, and those of the bridge
\* service: a call takes the first free slot and gives it back when it ends.
Runs == 1..MaxOverlap
Calls == 1..MaxOverlap

VARIABLES
  \* ---- jigsawBridge store
  pieceObjs,          \* heap of JigsawPiece objects: address -> fields
  puzzlePieces,       \* puzzlePieces.value: sequence of piece addresses
  isAnalyzing, isGeneratingPrompt, isGeneratingPieces,
  error,              \* jigsaw store error.value
  generationProgress, \* [current, total]
  \* ---- the runs of generateAllPuzzlePieces: each of these maps a run to
  pc,                 \* its suspension point
  i,                  \* its loop index (0-based, as in the code)
  piece,              \* const piece of its iteration: an address (0: none)
  results,            \* its local results array: sequence of piece addresses
  \* ---- comfyui store
  isProcessing, comfyError, currentProgress, generatedImages,
  \* ---- the call of runQwenImageEdit / waitUntilFinishedWS / waitForOutputs
  \* ---- each run is in: each of these maps a run to
  promptId,           \* prompt_id returned by queuePromptWS
  ws,                 \* the call's WebSocket: none/connecting/open/closing/closed
  opened,             \* first promise of waitUntilFinishedWS
  done,               \* second promise of waitUntilFinishedWS
  elapsed,            \* Date.now() - t0 in waitForOutputs
  res,                \* the Response postJSON / waitForOutputs is reading
  \* ---- remote service
  nextJob,            \* next prompt_id the service hands out
  \* ---- history (observation only), per run
  lastEvent,          \* last WebSocket event dispatched to the call
  msgCount,           \* frames delivered to the current call
  onNodeLog,          \* node ids passed to onNode by the current call
  outcome,            \* per piece index: what its job did in this run
  submitted,          \* piece indexes whose job was POSTed in this run
  inputBatch,         \* puzzlePieces.value when the run started
  \* ---- history (observation only), of the stores
  lastCall,           \* the store operation that completed last, and its result
  runs,               \* number of runs started
  \* ---- graph template engine (SpecGraph)
  heap,               \* JS objects of the graphs: ref -> object
  template,           \* root of the imported workflow JSON: node id -> ref
  workflow,           \* root of the graph built by the last request
  template0,          \* deep value of the template at load time
  request,            \* the last request: [kind, options]
  requests,           \* number of graphs prepared on request (PrepareGraph)
  \* ---- service client (comfy.ts)
  clientId,           \* the module constant clientId
  wire,               \* the last request sent that carries a client id
  \* ---- one call of runPromptAndStreamImages
  streamPc,           \* suspension point of the call
  captureId,          \* const captureId
  streamRes,          \* postJSON's const res: the Response of the POST
  streamJob,          \* prompt_id returned by queuePromptWS
  streamWs,           \* the call's WebSocket: none/connecting/open/closing/closed
  openPromise,        \* [state, value]
  donePromise,        \* [state, value]
  currentNode,        \* let currentNode
  imageBlobs,         \* const imageBlobs: sequence of blobs (byte sequences)
  objectUrls,         \* blob URL store: the blob each created object URL names
  frameCount,         \* frames delivered to the call
  streamEvent,        \* the last WebSocket event dispatched to the call
  onErrorLog,         \* the errors passed to options.onError by the call
  streamResult,       \* what the call returned or threw
  \* ---- one call of submitPrompt
  submitPc,           \* suspension point of the call
  submitRes,          \* postJSON's const res: the Response of the POST
  submitResult,       \* what the call returned or threw
  cryptoApi,          \* what globalThis.crypto offers in the runtime the module runs in
  \* ---- comfyui store: one call of interrupt
  interruptPc,        \* suspension point of the call
  queue,              \* queue.value
  \* ---- comfyui store: checkConnection, updateQueue, uploadImage, getHistory
  isConnected,        \* isConnected.value
  history,            \* history.value
  updates,            \* per caller of updateQueue: position, the Response awaited
  storeCalls,         \* per operation: position, the Response awaited, result
  \* ---- one call of buildAssetUrls
  assetsIn,           \* its argument: an outputs record
  assetsOut,          \* what it returned
  \* ---- remote service: the jobs it has run to completion
  remote,             \* [finished, lost]: job ids whose sentinel it has emitted,
                      \* and those whose sentinel reached no channel
  \* ---- jigsawBridge store: the refs reset() writes, and its bridge service
  jigsaw,             \* [currentAnalysis, contextAwarePrompt, jigsawCutPattern,
                      \*  editResponse, suggestions, currentImage, detectPeople,
                      \*  isEditing]
  service,            \* the JigsawBridgeService object and the calls of the store
                      \* that use it, per slot
  \* ---- one call of runSdxlWithPrompts
  sdxl,               \* its arguments, position, locals and result
  \* ---- comfyui store: the calls of runSAM3Segmentation in flight
  sam3                \* per call: position, job id, the Response awaited, result

batchVars == <<pieceObjs, puzzlePieces, isAnalyzing, isGeneratingPrompt,
               isGeneratingPieces, error, generationProgress, pc, i, piece,
               results, isProcessing, comfyError, currentProgress, generatedImages,
               promptId, ws, opened, done, elapsed, res, nextJob, lastEvent,
               msgCount, onNodeLog, outcome, submitted, inputBatch, lastCall,
               runs>>
graphVars == <<heap, template, workflow, template0, request, requests>>
streamVars == <<streamPc, captureId, streamRes, streamJob, streamWs, openPromise, donePromise,
                currentNode, imageBlobs, objectUrls, frameCount, streamEvent,
                onErrorLog, streamResult>>
submitVars == <<submitPc, submitRes, submitResult, cryptoApi>>
clientVars == <<clientId, wire, streamVars, submitVars>>
storeVars == <<isConnected, history, updates, storeCalls>>
interruptVars == <<interruptPc, queue, storeVars>>
assetVars == <<assetsIn, assetsOut>>
jigsawVars == <<jigsaw, service>>
moreVars == <<jigsawVars, sdxl, sam3>>
otherVars == <<assetVars, remote, moreVars>>
vars == <<batchVars, graphVars, clientVars, interruptVars, otherVars>>

\* ------------------------------------------------------------ errors thrown
\* A thrown value: isError says whether it is an instance of Error.
\* a variant that reports the status but drops the response body
PostFailedNoBody(path, reply) ==
  [isError |-> TRUE, message |-> "POST " \o path \o " failed: " \o ToString(reply.status)]
\* comfy.ts 38: new Error(`POST ${path} failed: ${res.status} ${await res.text()}`)
PostFailed(path, reply) ==
  [isError |-> TRUE,
   message |-> "POST " \o path \o " failed: " \o ToString(reply.status) \o " " \o reply.text]
WsErrorEvent == [isError |-> FALSE, message |-> Undefined]   \* an Event object
TimeoutError == [isError |-> TRUE, message |-> "Timeout waiting for ComfyUI outputs"]
FetchFailed == [isError |-> TRUE, message |-> "Failed to fetch"]  \* TypeError of fetch
\* comfy.ts 39: the SyntaxError res.json() rejects with on a body that is no JSON
JsonSyntaxError == [isError |-> TRUE, message |-> "Unexpected token < in JSON"]

\* ------------------------------------------------------------ puzzle pieces
NewPiece(subjectId) ==
  [id |-> subjectId, subjectId |-> subjectId, prompt |-> "prompt", status |-> "pending",
   imageUrl |-> <<>>, error |-> Undefined]
\* jigsawBridge.ts 271
PieceGenerating(obj) == [obj EXCEPT !.status = "generating"]
\* a variant without the else branch of jigsawBridge.ts 287-290
PieceAfterResultStuck(obj, result) ==
  IF Truthy(Get(result, "success")) /\ "images" \in DOMAIN result /\ Len(result.images) > 0
  THEN [obj EXCEPT !.status = "complete", !.imageUrl = <<result.images[1]>>]
  ELSE obj
\* a variant that takes a result without images for a success
PieceAfterResultLenient(obj, result) ==
  IF Truthy(Get(result, "success")) /\ "images" \in DOMAIN result /\ Len(result.images) > 0
  THEN [obj EXCEPT !.status = "complete", !.imageUrl = <<result.images[1]>>]
  ELSE [obj EXCEPT !.status = "complete"]
\* jigsawBridge.ts 284-290: result is what runQwenImageEdit returned
PieceAfterResult(obj, result) ==
  IF Truthy(Get(result, "success")) /\ "images" \in DOMAIN result /\ Len(result.images) > 0
  THEN [obj EXCEPT !.status = "complete", !.imageUrl = <<result.images[1]>>]
  ELSE [obj EXCEPT !.status = "error", !.error = "No image generated"]
\* a variant of the catch that records the message but not the status
PieceAfterThrowStuck(obj, err) ==
  [obj EXCEPT !.error = IF err.isError THEN err.message ELSE "Generation failed"]
\* a variant of the catch without the instanceof test and its fallback
PieceAfterThrowBare(obj, err) ==
  [obj EXCEPT !.status = "error", !.error = err.message]
\* jigsawBridge.ts 291-293: err is what runQwenImageEdit threw
PieceAfterThrow(obj, err) ==
  [obj EXCEPT !.status = "error",
                !.error = IF err.isError THEN err.message ELSE "Generation failed"]
\* a variant that inserts at the front (unshift)
ResultsPushFront(arr, addr) == <<addr>> \o arr
\* jigsawBridge.ts 297: results.push(piece)
ResultsPush(arr, addr) == Append(arr, addr)

NoOutcome == [kind |-> "none"]
\* the record of what the jobs of a run did, with what the job of the piece at
\* index k (1-based) did noted in it
Noted(log, k, what) ==
  [j \in 1..(IF k > Len(log) THEN k ELSE Len(log)) |->
     IF j = k THEN what ELSE IF j <= Len(log) THEN log[j] ELSE NoOutcome]
\* A call of a store operation: state is pending, returned or threw; array says
\* whether it returned an array (value) rather than undefined.
Call(op, state, array, value) ==
  [op |-> op, state |-> state, array |-> array, value |-> value]
Statuses(seq) == {pieceObjs[seq[k]].status : k \in 1..Len(seq)}

\* ------------------------------------------------------------ service client
\* a variant that stamps every request with another id
SentFresh(op, id) == [op |-> op, client_id |-> "uuid-2"]
\* A request that carries a client id: the body of POST /prompt (client_id) or
\* the URL of a WebSocket (?clientId=)
Sent(op, id) == [op |-> op, client_id |-> id]
\* the ids safeUUID / crypto.randomUUID may produce
UUIDs == {"uuid-1", "uuid-2"}
\* comfy.ts 83, the default of captureNodeId
DefaultCaptureId == "save_image_websocket_node"
Promise(state, value) == [state |-> state, value |-> value]
NoPromise == Promise("none", <<>>)
NoResult == [state |-> "none"]
\* What the runtime offers as globalThis.crypto: the whole Web Crypto API (a
\* secure context), an object without randomUUID (a page served over plain HTTP
\* from another host), or nothing.
CryptoApis == {"randomUUID", "getRandomValues", "none"}
\* comfy.ts 9-30 and the state before any call of the service: safeUUID yields
\* an id in every runtime
ClientIdle ==
  /\ clientId \in {"uuid-1"}
  /\ wire = Sent("none", "")
  /\ streamPc = "idle" /\ captureId = "" /\ streamRes = NoResponse /\ streamJob = 0 /\ streamWs = "none"
  /\ openPromise = NoPromise /\ donePromise = NoPromise
  /\ currentNode = "" /\ imageBlobs = <<>> /\ objectUrls = <<>>
  /\ frameCount = 0 /\ streamEvent = [kind |-> "none"] /\ onErrorLog = <<>>
  /\ streamResult = NoResult
  /\ submitPc = "idle" /\ submitRes = NoResponse /\ submitResult = NoResult
\* the service in a secure context
ClientInit == ClientIdle /\ cryptoApi = "randomUUID"

\* ------------------------------------------------------------ initial state
\* the callers of updateQueue: interrupt, checkConnection, or the user of the
\* store (the function is exported)
QueueCallers == {"interrupt", "checkConnection", "direct"}
NoUpdate == [pc |-> "idle", res |-> NoResponse]
\* the other store operations that send a request of their own
StoreOps == {"checkConnection", "uploadImage", "getHistory"}
NoStoreCall == [pc |-> "idle", res |-> NoResponse, result |-> NoResult]
\* comfyui.ts 311-314 and no call in flight
StoreIdle ==
  /\ isConnected = FALSE /\ history = <<>>
  /\ updates = [caller \in QueueCallers |-> NoUpdate]
  /\ storeCalls = [op \in StoreOps |-> NoStoreCall]
BatchInit ==
  /\ pieceObjs = <<>>
  /\ puzzlePieces = <<>>
  /\ isAnalyzing = FALSE /\ isGeneratingPrompt = FALSE /\ isGeneratingPieces = FALSE
  /\ error = Null
  /\ generationProgress = [current |-> 0, total |-> 0]
  /\ pc = [run \in Runs |-> "idle"] /\ i = [run \in Runs |-> 0]
  /\ piece = [run \in Runs |-> 0] /\ results = [run \in Runs |-> <<>>]
  /\ isProcessing = FALSE /\ comfyError = Null /\ currentProgress = ""
  /\ generatedImages = <<>>
  /\ interruptPc = "idle" /\ queue = Null
  /\ StoreIdle
  /\ promptId = [run \in Runs |-> 0] /\ ws = [run \in Runs |-> "none"]
  /\ opened = [run \in Runs |-> "none"] /\ done = [run \in Runs |-> "none"]
  /\ elapsed = [run \in Runs |-> 0] /\ res = [run \in Runs |-> NoResponse]
  /\ nextJob = 1
  /\ lastEvent = [run \in Runs |-> [kind |-> "none"]]
  /\ msgCount = [run \in Runs |-> 0] /\ onNodeLog = [run \in Runs |-> <<>>]
  /\ outcome = [run \in Runs |-> <<>>] /\ submitted = [run \in Runs |-> <<>>]
  /\ inputBatch = [run \in Runs |-> <<>>]
  /\ lastCall = Call("none", "returned", FALSE, <<>>)
  /\ runs = 0

jigsawFlags == <<isAnalyzing, isGeneratingPrompt>>
comfyStore == <<isProcessing, comfyError, currentProgress, generatedImages>>
trackerVars == <<promptId, ws, opened, done, lastEvent, msgCount, onNodeLog>>
pollVars == <<elapsed, res>>
runHistory == <<outcome, submitted, inputBatch, lastCall, runs>>
batchLocals == <<pieceObjs, puzzlePieces, jigsawFlags, isGeneratingPieces, error,
                 generationProgress, i, piece, results, outcome, submitted, inputBatch,
                 lastCall, runs>>

\* ------------------------------------------------------------ prepareMultiPieceJigsaw
\* the images a caller passes (base64 text)
ImageA == "data:image/png;base64,AAAA"
ImageB == "data:image/png;base64,BBBB"
Images == {ImageA, ImageB}
\* jigsawBridgeService.ts 567-572: the analysis a resolved service call carries
EnhancedAnalysis(n) == [context |-> "scene", subjectCount |-> n]
\* `a || b` on strings: undefined and '' are falsy
OrElse(a, b) == IF a \in {Undefined, ""} THEN b ELSE a
\* the lines a vision reply may hold, by the branch of the parser they take
\* (jigsawBridgeService.ts 421, 440-450): "1. Subject: dog", "Description: big",
\* "Position: left", a non-blank line of another shape, a blank line
SubjectLine(name) == [kind |-> "subject", name |-> name]
ReplyLines ==
  {SubjectLine("dog"), SubjectLine("tree"),
   [kind |-> "description", text |-> "big"], [kind |-> "position", text |-> "left"],
   [kind |-> "text", text |-> "Here it is"], [kind |-> "blank"]}
Replies == UNION {[1..n -> ReplyLines] : n \in 0..MaxLines}
NoSubject == [null |-> TRUE]
\* jigsawBridgeService.ts 425-431, 456-462: the subject pushed for currentSubject
PushedSubject(cur) ==
  [id |-> cur.id, name |-> cur.name, description |-> OrElse(cur.description, ""),
   position |-> OrElse(cur.position, "unknown")]
\* jigsawBridgeService.ts 423, 455: if (currentSubject && currentSubject.name)
Pushable(cur) == cur # NoSubject /\ cur.name \notin {Undefined, ""}
\* jigsawBridgeService.ts 411-466: parseSubjectsFromResponse, from line k on
RECURSIVE parseSubjectsFrom(_, _, _, _, _)
parseSubjectsFrom(lines, k, subjects, cur, subjectId) ==
  IF k > Len(lines)
  THEN IF Pushable(cur) THEN Append(subjects, PushedSubject(cur)) ELSE subjects
  ELSE LET line == lines[k] IN
       IF line.kind = "subject"
       THEN parseSubjectsFrom(lines, k + 1,
              IF Pushable(cur) THEN Append(subjects, PushedSubject(cur)) ELSE subjects,
              [id |-> subjectId + 1, name |-> line.name, description |-> Undefined,
               position |-> Undefined],
              subjectId + 1)
       ELSE IF cur # NoSubject /\ line.kind # "blank"
       THEN parseSubjectsFrom(lines, k + 1, subjects,
              CASE line.kind = "description" -> [cur EXCEPT !.description = line.text]
                [] line.kind = "position" -> [cur EXCEPT !.position = line.text]
                [] OTHER -> IF cur.description \in {Undefined, ""}
                            THEN [cur EXCEPT !.description =
                                    OrElse(cur.description, "") \o " " \o line.text]
                            ELSE cur,
              subjectId)
       ELSE parseSubjectsFrom(lines, k + 1, subjects, cur, subjectId)
parseSubjectsFromResponse(lines) == parseSubjectsFrom(lines, 1, <<>>, NoSubject, 0)
\* reading a property of undefined
TypeErrorOf(property) ==
  [isError |-> TRUE,
   message |-> "Cannot read properties of undefined (reading '" \o property \o "')"]
AxiosError == [isError |-> TRUE, message |-> "Network Error"]
\* jigsawBridge.ts 19-29: no analysis yet (currentAnalysis is null)
NoAnalysis == [null |-> TRUE]
\* a slot of the bridge service that holds no call
NoCall ==
  [pc |-> "idle", op |-> "none", calls |-> <<>>, analysis |-> NoAnalysis,
   subjects |-> <<>>, people |-> FALSE, parent |-> FALSE, settled |-> NoResult]
\* a new call of the service takes the first free slot
FreeCall(c) ==
  service.ops[c].pc = "idle" /\ \A q \in 1..(c - 1) : service.ops[q].pc # "idle"
\* slot c holds a call of op that has not settled
Awaited(c, op) == service.ops[c].op = op /\ service.ops[c].pc # "idle"
\* jigsawBridge.ts 241-248: catch and finally of prepareMultiPieceJigsaw
prepareCaught(err) ==
  /\ error' = "Failed to prepare multi-piece jigsaw"
  /\ isAnalyzing' = FALSE /\ isGeneratingPrompt' = FALSE
  /\ lastCall' = Call("prepare", "threw", FALSE, <<err>>)
\* jigsawBridge.ts 223-230 with jigsawBridgeService.ts 558-559, 67-78: the call,
\* up to the first request of the vision service
prepareMultiPieceJigsaw(c, imageBase64) ==
  /\ FreeCall(c)
  /\ isAnalyzing' = TRUE /\ isGeneratingPrompt' = TRUE
  /\ error' = Null
  /\ jigsaw' = [jigsaw EXCEPT !.currentImage = imageBase64]
  /\ service' = [service EXCEPT !.ops[c] = [NoCall EXCEPT !.pc = "analyze",
                                                           !.op = "prepare"]]
  /\ UNCHANGED <<pieceObjs, puzzlePieces, isGeneratingPieces, generationProgress,
                 pc, i, piece, results, comfyStore, trackerVars, pollVars, nextJob,
                 runHistory, graphVars, interruptVars, assetVars, remote, sdxl, sam3, clientVars>>
\* jigsawBridge.ts 230-240, 245-248: the service call resolved with n subjects
\* (ids 1..n), as a service with an edit model does; the subjects become new
\* piece objects and the list is replaced
prepareResolved(c, n) ==
  /\ Awaited(c, "prepare")
  /\ service' = [service EXCEPT !.ops[c].pc = "idle"]
  /\ pieceObjs' = pieceObjs \o [a \in 1..n |-> NewPiece(a)]
  /\ puzzlePieces' = [k \in 1..n |-> Len(pieceObjs) + k]
  /\ isAnalyzing' = FALSE /\ isGeneratingPrompt' = FALSE
  /\ jigsaw' = [jigsaw EXCEPT !.currentAnalysis = EnhancedAnalysis(n)]
  /\ lastCall' = Call("prepare", "returned", FALSE, <<>>)
  /\ UNCHANGED <<error, isGeneratingPieces, generationProgress, pc, i, piece,
                 results, comfyStore, trackerVars, pollVars, nextJob, outcome,
                 submitted, inputBatch, runs, graphVars, interruptVars, assetVars,
                 remote, sdxl, sam3, clientVars>>
\* jigsawBridgeService.ts 78-84, 562, 377-403: the analysis arrived; the service
\* asks the vision model for the subjects
prepareAnalyzed(c, response) ==
  /\ service.ops[c].pc = "analyze" /\ service.ops[c].op = "prepare"
  /\ service' = [service EXCEPT
                   !.ops[c].pc = "identify", !.ops[c].calls = Append(@, "ok"),
                   !.ops[c].analysis = [imageDescription |-> response,
                                        context |-> response]]
  /\ UNCHANGED <<batchVars, graphVars, clientVars, interruptVars, assetVars, remote, sdxl, sam3,
                 jigsaw>>
\* jigsawBridgeService.ts 403-405, 565, 472-501 and jigsawBridge.ts 241-248: the
\* subjects arrived and are parsed; generateSubjectPrompts builds its messages and
\* reads this.editService.chat, which throws when editService is undefined
prepareIdentified(c, response) ==
  /\ service.ops[c].pc = "identify" /\ service.ops[c].op = "prepare"
  /\ IF service.editService = Undefined
     THEN /\ service' = [service EXCEPT
                           !.ops[c].pc = "idle", !.ops[c].calls = Append(@, "ok"),
                           !.ops[c].subjects = parseSubjectsFromResponse(response)]
          /\ prepareCaught(TypeErrorOf("chat"))
     ELSE /\ service' = [service EXCEPT
                           !.ops[c].pc = "prompts", !.ops[c].calls = Append(@, "ok"),
                           !.ops[c].subjects = parseSubjectsFromResponse(response)]
          /\ UNCHANGED <<error, isAnalyzing, isGeneratingPrompt, lastCall>>
  /\ UNCHANGED <<pieceObjs, puzzlePieces, isGeneratingPieces, generationProgress,
                 pc, i, piece, results, comfyStore, trackerVars, pollVars, nextJob,
                 outcome, submitted, inputBatch, runs, graphVars, interruptVars,
                 assetVars, remote, sdxl, sam3, clientVars, jigsaw>>
\* ollamaService.ts 54-57, 92-95 and jigsawBridge.ts 241-248: a request of the
\* vision service failed
prepareVisionFails(c) ==
  /\ service.ops[c].pc \in {"analyze", "identify"} /\ service.ops[c].op = "prepare"
  /\ service' = [service EXCEPT !.ops[c].pc = "idle",
                                !.ops[c].calls = Append(@, "failed")]
  /\ prepareCaught(AxiosError)
  /\ UNCHANGED <<pieceObjs, puzzlePieces, isGeneratingPieces, generationProgress,
                 pc, i, piece, results, comfyStore, trackerVars, pollVars, nextJob,
                 outcome, submitted, inputBatch, runs, graphVars, interruptVars,
                 assetVars, remote, sdxl, sam3, clientVars, jigsaw>>
\* ------------------------------------------------------------ analysis and edit
\* everything but the refs and the service that the operations below write
jigsawFrame ==
  <<pieceObjs, puzzlePieces, isGeneratingPieces, generationProgress, pc, i, piece,
    results, comfyStore, trackerVars, pollVars, nextJob, outcome, submitted,
    inputBatch, runs, graphVars, interruptVars, assetVars, remote, sdxl, sam3,
    clientVars>>
Returned(value) == [state |-> "returned", value |-> value]
Threw(err) == [state |-> "threw", err |-> err]
\* The slot of a store operation that has ended: when processJigsaw made the
\* call, it resumes with the outcome.
Ended(slot, result) ==
  IF slot.parent THEN [slot EXCEPT !.pc = "resume", !.settled = result]
  ELSE [slot EXCEPT !.pc = "idle", !.settled = result]
\* lines.join('\n')
RECURSIVE JoinLines(_)
JoinLines(lines) ==
  IF lines = <<>> THEN ""
  ELSE IF Len(lines) = 1 THEN lines[1]
  ELSE lines[1] \o "\n" \o JoinLines(Tail(lines))
\* The lines a reply to the people prompt may hold, by the branch of the parser
\* they take (jigsawBridgeService.ts 115, 128-161): a person marker, a line
\* that holds 'position', 'wearing' or 'clothing', 'age', 'gender' or 'male' or
\* 'female' (the first of these that applies), a line of another shape, a blank
\* line, and the answer that no individuals are detected.
PeopleLines ==
  { [kind |-> "person", text |-> "1. Person: a man"],
    [kind |-> "position", text |-> "Position: left"],
    [kind |-> "clothing", text |-> "wearing a hat"],
    [kind |-> "age", text |-> "Age: 30-40"],
    [kind |-> "gender", text |-> "Gender: male"],
    [kind |-> "text", text |-> "tall"],
    [kind |-> "blank", text |-> ""],
    [kind |-> "none", text |-> "No individuals detected in this image."] }
PeopleReplies == UNION {[1..n -> PeopleLines] : n \in 0..MaxLines}
NoPerson == [null |-> TRUE]
\* jigsawBridgeService.ts 134-141, 167-174: the person pushed for currentPerson
PushedPerson(cur) ==
  [id |-> cur.id, description |-> cur.description,
   position |-> OrElse(cur.position, "unknown"),
   clothing |-> cur.clothing, age |-> cur.age, gender |-> cur.gender]
\* jigsawBridgeService.ts 133, 166: if (currentPerson && currentPerson.description)
PersonPushable(cur) == cur # NoPerson /\ cur.description \notin {Undefined, ""}
\* jigsawBridgeService.ts 120-177: the loop of parsePeopleFromResponse, from
\* line k on, and what follows it
RECURSIVE parsePeopleFrom(_, _, _, _, _)
parsePeopleFrom(lines, k, people, cur, personId) ==
  IF k > Len(lines)
  THEN IF PersonPushable(cur) THEN Append(people, PushedPerson(cur)) ELSE people
  ELSE LET line == lines[k] IN
       IF line.kind = "person"
       THEN parsePeopleFrom(lines, k + 1,
              IF PersonPushable(cur) THEN Append(people, PushedPerson(cur)) ELSE people,
              [id |-> personId + 1, description |-> line.text, position |-> Undefined,
               clothing |-> Undefined, age |-> Undefined, gender |-> Undefined],
              personId + 1)
       ELSE IF cur # NoPerson /\ line.kind # "blank"
       THEN parsePeopleFrom(lines, k + 1, people,
              CASE line.kind = "position" -> [cur EXCEPT !.position = line.text]
                [] line.kind = "clothing" -> [cur EXCEPT !.clothing = line.text]
                [] line.kind = "age" -> [cur EXCEPT !.age = line.text]
                [] line.kind = "gender" -> [cur EXCEPT !.gender = line.text]
                [] OTHER -> [cur EXCEPT !.description =
                               OrElse(cur.description, "") \o " " \o line.text],
              personId)
       ELSE parsePeopleFrom(lines, k + 1, people, cur, personId)
\* jigsawBridgeService.ts 112-178: parsePeopleFromResponse
parsePeopleFromResponse(lines) ==
  IF \E k \in 1..Len(lines) : lines[k].kind = "none" THEN <<>>
  ELSE parsePeopleFrom(lines, 1, <<>>, NoPerson, 0)
\* jigsawBridgeService.ts 81-84: the analysis analyzeJigsaw resolves with
BasicAnalysis(response) == [imageDescription |-> response, context |-> response]
\* jigsawBridgeService.ts 191-196: the analysis with the people in it
AnalysisWithPeople(basic, people) ==
  [imageDescription |-> basic.imageDescription,
   detectedPeople |-> people,
   peopleCount |-> Len(people),
   context |-> basic.context \o "\n\nDetected " \o ToString(Len(people))
                 \o " individual(s) in the image:\n"
                 \o JoinLines([k \in 1..Len(people) |->
                                 "- Person " \o ToString(people[k].id) \o ": "
                                   \o people[k].description
                                   \o " (" \o people[k].position \o ")"])]
\* jigsawBridge.ts 53-61 with jigsawBridgeService.ts 67-78, 183-185:
\* analyzeJigsaw, to the first request of the vision service; slot is the slot
\* the call takes
AnalyzeBegins(c, imageBase64, withPeopleDetection, slot) ==
  /\ isAnalyzing' = TRUE
  /\ error' = Null
  /\ jigsaw' = [jigsaw EXCEPT !.currentImage = imageBase64]
  /\ service' = [service EXCEPT !.ops[c] =
                   [slot EXCEPT !.pc = "analyze", !.op = "analyze",
                                !.people = withPeopleDetection]]
  /\ UNCHANGED <<isGeneratingPrompt, lastCall>>
\* jigsawBridge.ts 53-61: a call of analyzeJigsaw
analyzeJigsaw(c, imageBase64, withPeopleDetection) ==
  /\ FreeCall(c)
  /\ AnalyzeBegins(c, imageBase64, withPeopleDetection, NoCall)
  /\ UNCHANGED jigsawFrame
\* jigsawBridge.ts 62-63, 68-70: the service call resolved with analysis
AnalyzeReturns(c, analysis) ==
  /\ service' = [service EXCEPT !.ops[c] =
                   Ended([service.ops[c] EXCEPT !.calls = Append(@, "ok"),
                                                !.analysis = analysis],
                         Returned(analysis))]
  /\ jigsaw' = [jigsaw EXCEPT !.currentAnalysis = analysis]
  /\ isAnalyzing' = FALSE
  /\ lastCall' = Call("analyzeJigsaw", "returned", FALSE, <<>>)
  /\ UNCHANGED <<isGeneratingPrompt, error>>
\* jigsawBridgeService.ts 78-84, 185-188, 102: the first reply of the vision
\* service arrived: without people detection the call resolves; with it, the
\* service asks for the people
analyzeResolved(c, response) ==
  /\ service.ops[c].pc = "analyze" /\ service.ops[c].op = "analyze"
  /\ IF service.ops[c].people
     THEN /\ service' = [service EXCEPT
                           !.ops[c].pc = "detect", !.ops[c].calls = Append(@, "ok"),
                           !.ops[c].analysis = BasicAnalysis(response)]
          /\ UNCHANGED <<isAnalyzing, isGeneratingPrompt, error, jigsaw, lastCall>>
     ELSE AnalyzeReturns(c, BasicAnalysis(response))
  /\ UNCHANGED jigsawFrame
\* jigsawBridgeService.ts 102-106, 188-196 and jigsawBridge.ts 62-63, 68-70: the
\* reply to the people prompt arrived and is parsed
analyzeDetected(c, response) ==
  /\ service.ops[c].pc = "detect" /\ service.ops[c].op = "analyze"
  /\ AnalyzeReturns(c, AnalysisWithPeople(service.ops[c].analysis,
                                          parsePeopleFromResponse(response)))
  /\ UNCHANGED jigsawFrame
\* jigsawBridge.ts 64-70: a request of the vision service failed
analyzeRejected(c) ==
  /\ service.ops[c].pc \in {"analyze", "detect"} /\ service.ops[c].op = "analyze"
  /\ service' = [service EXCEPT !.ops[c] =
                   Ended([service.ops[c] EXCEPT !.calls = Append(@, "failed")],
                         Threw(AxiosError))]
  /\ error' = "Failed to analyze jigsaw puzzle"
  /\ isAnalyzing' = FALSE
  /\ lastCall' = Call("analyzeJigsaw", "threw", FALSE, <<AxiosError>>)
  /\ UNCHANGED <<isGeneratingPrompt, jigsaw, jigsawFrame>>
\* The lines a reply of the edit model may hold, by the test of
\* extractSuggestions they pass (jigsawBridgeService.ts 340-346): a list item, a
\* line that holds 'suggest' or 'recommend', another line.
ChatContents ==
  { << [kind |-> "other", text |-> "Make the sky blue."] >>,
    << [kind |-> "other", text |-> "Done."],
       [kind |-> "bullet", text |-> "- add a frame"],
       [kind |-> "suggest", text |-> "I suggest more contrast"] >> }
ChatReplies == {[ok |-> FALSE]} \cup {[ok |-> TRUE, lines |-> l] : l \in ChatContents}
\* response.message.content
Content(reply) == JoinLines([k \in 1..Len(reply.lines) |-> reply.lines[k].text])
\* jigsawBridgeService.ts 336-351: extractSuggestions
RECURSIVE extractSuggestions(_)
extractSuggestions(lines) ==
  IF lines = <<>> THEN <<>>
  ELSE (IF Head(lines).kind \in {"bullet", "suggest"} THEN <<Head(lines).text>>
        ELSE <<>>) \o extractSuggestions(Tail(lines))
\* jigsawBridgeService.ts 242, 273, 322: this.editService.chat(messages) throws
\* before any request when editService is undefined; otherwise the request may
\* fail
ChatFails(reply) == service.editService = Undefined \/ ~reply.ok
ChatThrown == IF service.editService = Undefined THEN TypeErrorOf("chat") ELSE AxiosError
\* jigsawBridge.ts 77-92 with jigsawBridgeService.ts 202-242:
\* generateJigsawCutPattern, to the await
generateJigsawCutPattern(c) ==
  /\ FreeCall(c)
  /\ IF jigsaw.currentAnalysis = NoAnalysis
     THEN /\ error' = "Please analyze the image first"
          /\ lastCall' = Call("generateJigsawCutPattern", "returned", FALSE, <<>>)
          /\ service' = [service EXCEPT !.ops[c] =
                           Ended([NoCall EXCEPT !.op = "cutPattern"],
                                 Returned(Undefined))]
          /\ UNCHANGED isGeneratingPrompt
     ELSE /\ isGeneratingPrompt' = TRUE
          /\ error' = Null
          /\ service' = [service EXCEPT !.ops[c] =
                           [NoCall EXCEPT !.pc = "chat", !.op = "cutPattern"]]
          /\ UNCHANGED lastCall
  /\ UNCHANGED <<isAnalyzing, jigsaw, jigsawFrame>>
\* jigsawBridge.ts 92-100: the service call settled
cutPatternSettles(c, reply) ==
  /\ service.ops[c].pc = "chat" /\ service.ops[c].op = "cutPattern"
  /\ IF ChatFails(reply)
     THEN /\ error' = "Failed to generate jigsaw cut pattern"
          /\ lastCall' = Call("generateJigsawCutPattern", "threw", FALSE, <<ChatThrown>>)
          /\ service' = [service EXCEPT !.ops[c] = Ended(@, Threw(ChatThrown))]
          /\ UNCHANGED jigsaw
     ELSE /\ jigsaw' = [jigsaw EXCEPT !.jigsawCutPattern = Content(reply)]
          /\ lastCall' = Call("generateJigsawCutPattern", "returned", FALSE,
                              <<Content(reply)>>)
          /\ service' = [service EXCEPT !.ops[c] = Ended(@, Returned(Content(reply)))]
          /\ UNCHANGED error
  /\ isGeneratingPrompt' = FALSE
  /\ UNCHANGED <<isAnalyzing, jigsawFrame>>
\* jigsawBridge.ts 106-116 with jigsawBridgeService.ts 249-273:
\* generateEditPrompt, to the await; slot is the slot the call takes
EditPromptBegins(c, slot) ==
  /\ IF jigsaw.currentAnalysis = NoAnalysis
     THEN /\ error' = "Please analyze the image first"
          /\ lastCall' = Call("generateEditPrompt", "returned", FALSE, <<>>)
          /\ service' = [service EXCEPT !.ops[c] =
                           Ended([slot EXCEPT !.op = "editPrompt"],
                                 Returned(Undefined))]
          /\ UNCHANGED isGeneratingPrompt
     ELSE /\ isGeneratingPrompt' = TRUE
          /\ error' = Null
          /\ service' = [service EXCEPT !.ops[c] =
                           [slot EXCEPT !.pc = "chat", !.op = "editPrompt"]]
          /\ UNCHANGED lastCall
  /\ UNCHANGED <<isAnalyzing, jigsaw>>
\* jigsawBridge.ts 106-116: a call of generateEditPrompt; the user's intent goes
\* into the messages of the request only
generateEditPrompt(c) ==
  /\ FreeCall(c)
  /\ EditPromptBegins(c, NoCall)
  /\ UNCHANGED jigsawFrame
\* jigsawBridge.ts 116-125: the service call settled
editPromptSettles(c, reply) ==
  /\ service.ops[c].pc = "chat" /\ service.ops[c].op = "editPrompt"
  /\ IF ChatFails(reply)
     THEN /\ error' = "Failed to generate context-aware prompt"
          /\ lastCall' = Call("generateEditPrompt", "threw", FALSE, <<ChatThrown>>)
          /\ service' = [service EXCEPT !.ops[c] = Ended(@, Threw(ChatThrown))]
          /\ UNCHANGED jigsaw
     ELSE /\ jigsaw' = [jigsaw EXCEPT !.contextAwarePrompt = Content(reply)]
          /\ lastCall' = Call("generateEditPrompt", "returned", FALSE, <<Content(reply)>>)
          /\ service' = [service EXCEPT !.ops[c] = Ended(@, Returned(Content(reply)))]
          /\ UNCHANGED error
  /\ isGeneratingPrompt' = FALSE
  /\ UNCHANGED <<isAnalyzing, jigsawFrame>>
\* the custom prompts a caller of executeEdit passes, or none
CustomPrompts == {Undefined, "", "make it blue"}
\* jigsawBridge.ts 131-147 with jigsawBridgeService.ts 310-322: executeEdit, to
\* the await; slot is the slot the call takes
ExecuteEditBegins(c, slot, customPrompt) ==
  /\ IF ~Truthy(jigsaw.currentImage) \/ OrElse(customPrompt, jigsaw.contextAwarePrompt) = ""
     THEN /\ error' = IF ~Truthy(jigsaw.currentImage) THEN "No image to edit"
                      ELSE "No prompt available"
          /\ lastCall' = Call("executeEdit", "returned", FALSE, <<>>)
          /\ service' = [service EXCEPT !.ops[c] =
                           Ended([slot EXCEPT !.op = "executeEdit"],
                                 Returned(Undefined))]
          /\ UNCHANGED jigsaw
     ELSE /\ jigsaw' = [jigsaw EXCEPT !.isEditing = TRUE]
          /\ error' = Null
          /\ service' = [service EXCEPT !.ops[c] =
                           [slot EXCEPT !.pc = "chat", !.op = "executeEdit"]]
          /\ UNCHANGED lastCall
  /\ UNCHANGED <<isAnalyzing, isGeneratingPrompt>>
\* jigsawBridge.ts 131-147: a call of executeEdit
executeEdit(c, customPrompt) ==
  /\ FreeCall(c)
  /\ ExecuteEditBegins(c, NoCall, customPrompt)
  /\ UNCHANGED jigsawFrame
\* jigsawBridgeService.ts 325-330: what executeEdit of the service resolves with
EditResult(reply) ==
  [response |-> Content(reply), suggestions |-> extractSuggestions(reply.lines)]
\* jigsawBridge.ts 147-157: the service call settled
executeEditSettles(c, reply) ==
  /\ service.ops[c].pc = "chat" /\ service.ops[c].op = "executeEdit"
  /\ IF ChatFails(reply)
     THEN /\ error' = "Failed to execute edit"
          /\ lastCall' = Call("executeEdit", "threw", FALSE, <<ChatThrown>>)
          /\ service' = [service EXCEPT !.ops[c] = Ended(@, Threw(ChatThrown))]
          /\ jigsaw' = [jigsaw EXCEPT !.isEditing = FALSE]
     ELSE /\ jigsaw' = [jigsaw EXCEPT !.editResponse = EditResult(reply).response,
                                      !.suggestions = EditResult(reply).suggestions,
                                      !.isEditing = FALSE]
          /\ lastCall' = Call("executeEdit", "returned", FALSE, <<EditResult(reply)>>)
          /\ service' = [service EXCEPT !.ops[c] = Ended(@, Returned(EditResult(reply)))]
          /\ UNCHANGED error
  /\ UNCHANGED <<isAnalyzing, isGeneratingPrompt, jigsawFrame>>
\* jigsawBridge.ts 163-170: processJigsaw, to the await of analyzeJigsaw; the
\* user's intent goes into the messages of the second request only
processJigsaw(c, imageBase64, withPeopleDetection) ==
  /\ FreeCall(c)
  /\ AnalyzeBegins(c, imageBase64, withPeopleDetection, [NoCall EXCEPT !.parent = TRUE])
  /\ UNCHANGED jigsawFrame
\* jigsawBridge.ts 170-186: the operation processJigsaw awaited has ended: what
\* it threw is rethrown; after the analysis generateEditPrompt is called, after
\* that executeEdit (without a prompt), and after that the call returns
processResumes(c) ==
  /\ service.ops[c].pc = "resume"
  /\ IF service.ops[c].settled.state = "threw"
     THEN /\ lastCall' = Call("processJigsaw", "threw", FALSE,
                              <<service.ops[c].settled.err>>)
          /\ service' = [service EXCEPT !.ops[c].pc = "idle"]
          /\ UNCHANGED <<isAnalyzing, isGeneratingPrompt, error, jigsaw>>
     ELSE IF service.ops[c].op = "analyze"
     THEN EditPromptBegins(c, service.ops[c])
     ELSE IF service.ops[c].op = "editPrompt"
     THEN ExecuteEditBegins(c, service.ops[c], Undefined)
     ELSE /\ lastCall' = Call("processJigsaw", "returned", FALSE,
                              <<[analysis |-> jigsaw.currentAnalysis,
                                 prompt |-> jigsaw.contextAwarePrompt,
                                 result |-> service.ops[c].settled.value]>>)
          /\ service' = [service EXCEPT !.ops[c].pc = "idle"]
          /\ UNCHANGED <<isAnalyzing, isGeneratingPrompt, error, jigsaw>>
  /\ UNCHANGED jigsawFrame
\* the models a caller may choose
ModelNames == {"qwen3-vl:4b"}
\* jigsawBridge.ts 211-213 and jigsawBridgeService.ts 356-361: setVisionModel
setVisionModel(model) ==
  /\ service' = [service EXCEPT !.visionModel = model]
  /\ lastCall' = Call("setVisionModel", "returned", FALSE, <<>>)
  /\ UNCHANGED <<isAnalyzing, isGeneratingPrompt, error, jigsaw, jigsawFrame>>
\* jigsawBridge.ts 206-209: setModels sets the vision model, then the edit
\* model, where the service throws as in setEditModel
setModels(visionModel, editModel) ==
  /\ IF service.editService = Undefined
     THEN /\ lastCall' = Call("setModels", "threw", FALSE, <<TypeErrorOf("config")>>)
          /\ service' = [service EXCEPT !.visionModel = visionModel]
     ELSE /\ lastCall' = Call("setModels", "returned", FALSE, <<>>)
          /\ service' = [service EXCEPT !.visionModel = visionModel,
                                        !.editService = "OllamaService"]
  /\ UNCHANGED <<isAnalyzing, isGeneratingPrompt, error, jigsaw, jigsawFrame>>
\* jigsawBridge.ts 215-217 and jigsawBridgeService.ts 366-372: the argument of
\* new OllamaService reads this.editService['config'] first
setEditModel ==
  /\ IF service.editService = Undefined
     THEN /\ lastCall' = Call("setEditModel", "threw", FALSE, <<TypeErrorOf("config")>>)
          /\ UNCHANGED service
     ELSE /\ lastCall' = Call("setEditModel", "returned", FALSE, <<>>)
          /\ service' = [service EXCEPT !.editService = "OllamaService"]
  /\ UNCHANGED <<pieceObjs, puzzlePieces, jigsawFlags, isGeneratingPieces, error,
                 generationProgress, pc, i, piece, results, comfyStore, trackerVars,
                 pollVars, nextJob, outcome, submitted, inputBatch, runs, graphVars,
                 interruptVars, assetVars, remote, sdxl, sam3, clientVars, jigsaw>>
\* jigsawBridge.ts 192-201: reset (the busy flags and isEditing stay)
reset ==
  /\ jigsaw' = [jigsaw EXCEPT !.currentAnalysis = NoAnalysis,
                              !.contextAwarePrompt = "", !.jigsawCutPattern = "",
                              !.editResponse = "", !.suggestions = <<>>,
                              !.currentImage = Null, !.detectPeople = FALSE]
  /\ error' = Null
  /\ lastCall' = Call("reset", "returned", FALSE, <<>>)
  /\ UNCHANGED <<pieceObjs, puzzlePieces, jigsawFlags, isGeneratingPieces,
                 generationProgress, pc, i, piece, results, comfyStore, trackerVars,
                 pollVars, nextJob, outcome, submitted, inputBatch, runs, graphVars,
                 interruptVars, assetVars, remote, sdxl, sam3, clientVars, service>>

\* ============================================================ graph template engine
\* JavaScript objects live in heap: a graph is a root (node id -> ref of the node
\* object); a node object holds class_type and, usually, inputs (the ref of its
\* inputs object); an inputs object maps input keys to values. Assignments write
\* through refs, so a graph that shares objects with the template changes it.
Graph(root, h) == [root |-> root, heap |-> h]

\* the nodes a workflow of each kind may hold, in the order of the JSON file
NodeOrder(kind) ==
  CASE kind = "qwen" -> <<"78", "115:111", "115:110", "115:3", "60">>
    [] kind = "sam3" -> <<"1", "12", "20">>
    [] kind = "sdxl" -> <<"6", "15", "9">>
\* the input keys the code writes on each node
TargetKeys(kind, node) ==
  CASE kind = "qwen" /\ node = "78" -> {"image"}
    [] kind = "qwen" /\ node \in {"115:111", "115:110"} -> {"prompt"}
    [] kind = "qwen" /\ node = "115:3" -> {"seed", "steps"}
    [] kind = "sam3" /\ node = "1" -> {"image"}
    [] kind = "sam3" /\ node = "12" -> {"prompt"}
    [] kind = "sdxl" /\ node \in {"6", "15"} -> {"text"}
    [] OTHER -> {}
TemplateValue(key) ==
  CASE key = "image" -> "template.png"
    [] key = "prompt" -> "template prompt"
    [] key = "text" -> "template text"
    [] key = "seed" -> 42
    [] key = "steps" -> 20
    [] OTHER -> "template other"
IndexOf(seq, x) == CHOOSE k \in 1..Len(seq) : seq[k] = x
NodeRef(kind, node, base) == base + 2 * IndexOf(NodeOrder(kind), node) - 1
InputsRef(kind, node, base) == base + 2 * IndexOf(NodeOrder(kind), node)
CloneBase(kind) == 2 * Len(NodeOrder(kind))

\* The shape of one template node: absent, without inputs, or with inputs holding
\* some of the keys the code writes (and always the key "other").
NodeShapes(kind, node) ==
  IF TargetKeys(kind, node) = {} THEN { [present |-> TRUE, inputs |-> TRUE, keys |-> {}] }
  ELSE { [present |-> FALSE, inputs |-> FALSE, keys |-> {}],
         [present |-> TRUE, inputs |-> FALSE, keys |-> {}] }
       \cup { [present |-> TRUE, inputs |-> TRUE, keys |-> ks] :
                ks \in SUBSET TargetKeys(kind, node) }
Range(seq) == {seq[k] : k \in 1..Len(seq)}
TemplateShapes(kind) ==
  { sh \in [Range(NodeOrder(kind)) -> UNION {NodeShapes(kind, n) : n \in Range(NodeOrder(kind))}] :
      \A n \in Range(NodeOrder(kind)) : sh[n] \in NodeShapes(kind, n) }
\* the graph the JSON file of that shape parses to
LoadTemplate(kind, sh) ==
  LET present == {n \in Range(NodeOrder(kind)) : sh[n].present}
      withInputs == {n \in present : sh[n].inputs}
      nodeRefs == {NodeRef(kind, n, 0) : n \in present}
      inputRefs == {InputsRef(kind, n, 0) : n \in withInputs}
      nodeAt(r) == CHOOSE n \in present : NodeRef(kind, n, 0) = r
      inputsAt(r) == CHOOSE n \in withInputs : InputsRef(kind, n, 0) = r
  IN Graph([n \in present |-> NodeRef(kind, n, 0)],
           [r \in nodeRefs \cup inputRefs |->
              IF r \in nodeRefs
              THEN IF sh[nodeAt(r)].inputs
                   THEN [class_type |-> nodeAt(r), inputs |-> InputsRef(kind, nodeAt(r), 0)]
                   ELSE [class_type |-> nodeAt(r)]
              ELSE [k \in sh[inputsAt(r)].keys \cup {"other"} |-> TemplateValue(k)]])

\* the JSON value of a graph (what JSON.stringify sees)
NodeValue(h, ref) ==
  IF "inputs" \in DOMAIN h[ref]
  THEN [class_type |-> h[ref].class_type, inputs |-> h[h[ref].inputs]]
  ELSE [class_type |-> h[ref].class_type]
Value(g) == [n \in DOMAIN g.root |-> NodeValue(g.heap, g.root[n])]

\* const workflow = editQwenWorkflow: no copy at all
CloneByReference(kind, g) == g
\* JSON.parse(JSON.stringify(template)): every object of the graph is a new one.
\* The objects of an earlier clone are unreachable and dropped.
DeepClone(kind, g) ==
  LET base == CloneBase(kind)
      nodes == DOMAIN g.root
      withInputs == {n \in nodes : "inputs" \in DOMAIN g.heap[g.root[n]]}
      kept == {r \in DOMAIN g.heap : r <= base}
      nodeRefs == {NodeRef(kind, n, base) : n \in nodes}
      inputRefs == {InputsRef(kind, n, base) : n \in withInputs}
      nodeAt(r) == CHOOSE n \in nodes : NodeRef(kind, n, base) = r
      inputsAt(r) == CHOOSE n \in withInputs : InputsRef(kind, n, base) = r
  IN Graph([n \in nodes |-> NodeRef(kind, n, base)],
           [r \in kept \cup nodeRefs \cup inputRefs |->
              IF r \in kept THEN g.heap[r]
              ELSE IF r \in nodeRefs
              THEN IF nodeAt(r) \in withInputs
                   THEN [class_type |-> g.heap[g.root[nodeAt(r)]].class_type,
                         inputs |-> InputsRef(kind, nodeAt(r), base)]
                   ELSE [class_type |-> g.heap[g.root[nodeAt(r)]].class_type]
              ELSE g.heap[g.heap[g.root[inputsAt(r)]].inputs]])

\* workflow[node]?.inputs is an object
HasInputs(g, node) ==
  node \in DOMAIN g.root /\ "inputs" \in DOMAIN g.heap[g.root[node]]
\* obj[key] = v
WithKey(obj, key, v) == [k \in DOMAIN obj \cup {key} |-> IF k = key THEN v ELSE obj[k]]
\* workflow[node].inputs[key] = v
SetInput(g, node, key, v) ==
  LET ref == g.heap[g.root[node]].inputs
  IN Graph(g.root, [g.heap EXCEPT ![ref] = WithKey(@, key, v)])
\* a variant that creates the node it does not find
InjectCreating(kind, g, node, key, v) ==
  IF HasInputs(g, node) THEN SetInput(g, node, key, v)
  ELSE LET nref == NodeRef(kind, node, CloneBase(kind))
           iref == InputsRef(kind, node, CloneBase(kind))
       IN Graph(WithKey(g.root, node, nref),
                [r \in DOMAIN g.heap \cup {nref, iref} |->
                   IF r = nref THEN [class_type |-> node, inputs |-> iref]
                   ELSE IF r = iref THEN WithKey(<<>>, key, v)
                   ELSE g.heap[r]])
\* if (workflow[node]?.inputs) workflow[node].inputs[key] = v
Inject(kind, g, node, key, v) ==
  IF HasInputs(g, node) THEN SetInput(g, node, key, v) ELSE g

\* comfyui.ts 403-430
ApplyQwen(g, options) ==
  LET g1 == Inject("qwen", g, "78", "image", options.imageFilename)
      g2 == Inject("qwen", g1, "115:111", "prompt", options.positivePrompt)
      g3 == Inject("qwen", g2, "115:110", "prompt",
                   IF Truthy(Get(options, "negativePrompt"))
                   THEN options.negativePrompt ELSE "")
      g4 == IF HasInputs(g3, "115:3") /\ "seed" \in DOMAIN options
            THEN SetInput(g3, "115:3", "seed", options.seed) ELSE g3
      g5 == IF HasInputs(g4, "115:3") /\ "steps" \in DOMAIN options
            THEN SetInput(g4, "115:3", "steps", options.steps) ELSE g4
  IN g5
\* comfyui.ts 237-245
ApplySAM3(g, options) ==
  LET g1 == Inject("sam3", g, "1", "image", options.imageFilename)
  IN Inject("sam3", g1, "12", "prompt", options.prompt)
\* comfy.ts 244-246
ApplySdxl(g, options) ==
  LET g1 == Inject("sdxl", g, "6", "text", options.p)
  IN Inject("sdxl", g1, "15", "text", options.p)
ApplyParameters(kind, g, options) ==
  CASE kind = "qwen" -> ApplyQwen(g, options)
    [] kind = "sam3" -> ApplySAM3(g, options)
    [] kind = "sdxl" -> ApplySdxl(g, options)

\* comfyui.ts 308, 396-401: the workflow that comfyui.ts imports (edit_qwen_wf.json): every
\* node the store writes is there, with inputs that hold the keys it writes
EditQwenShape ==
  [n \in Range(NodeOrder("qwen")) |->
     [present |-> TRUE, inputs |-> TRUE, keys |-> TargetKeys("qwen", n)]]
EditQwenWorkflow == LoadTemplate("qwen", EditQwenShape)

\* ------------------------------------------------------------ generateAllPuzzlePieces
\* a new run takes the first free slot
FreeRun(run) == pc[run] = "idle" /\ \A q \in 1..(run - 1) : pc[q] # "idle"

\* a variant without the test for an empty list
generateAllUnchecked(run) ==
  /\ FreeRun(run)
  /\ isGeneratingPieces' = TRUE
  /\ error' = Null
  /\ generationProgress' = [current |-> 0, total |-> Len(puzzlePieces)]
  /\ results' = [results EXCEPT ![run] = <<>>]
  /\ i' = [i EXCEPT ![run] = 0]
  /\ pc' = [pc EXCEPT ![run] = "iter"]
  /\ outcome' = [outcome EXCEPT ![run] = [k \in 1..Len(puzzlePieces) |-> NoOutcome]]
  /\ submitted' = [submitted EXCEPT ![run] = <<>>]
  /\ inputBatch' = [inputBatch EXCEPT ![run] = puzzlePieces]
  /\ lastCall' = Call("generateAll", "pending", FALSE, <<>>)
  /\ runs' = runs + 1
  /\ UNCHANGED <<pieceObjs, puzzlePieces, jigsawFlags, piece, comfyStore, trackerVars,
                 pollVars, nextJob, graphVars, interruptVars, otherVars, clientVars>>
\* jigsawBridge.ts 255-266: the call, up to the loop
generateAllPuzzlePieces(run) ==
  /\ FreeRun(run)
  /\ IF Len(puzzlePieces) = 0
     THEN /\ error' = "No puzzle pieces to generate. Run prepareMultiPieceJigsaw first."
          /\ lastCall' = Call("generateAll", "returned", FALSE, <<>>)
          /\ UNCHANGED <<isGeneratingPieces, generationProgress, results, i, pc,
                         outcome, submitted, inputBatch, runs>>
     ELSE /\ isGeneratingPieces' = TRUE
          /\ error' = Null
          /\ generationProgress' = [current |-> 0, total |-> Len(puzzlePieces)]
          /\ results' = [results EXCEPT ![run] = <<>>]
          /\ i' = [i EXCEPT ![run] = 0]
          /\ pc' = [pc EXCEPT ![run] = "iter"]
          /\ outcome' = [outcome EXCEPT ![run] = [k \in 1..Len(puzzlePieces) |-> NoOutcome]]
          /\ submitted' = [submitted EXCEPT ![run] = <<>>]
          /\ inputBatch' = [inputBatch EXCEPT ![run] = puzzlePieces]
          /\ lastCall' = Call("generateAll", "pending", FALSE, <<>>)
          /\ runs' = runs + 1
  /\ UNCHANGED <<pieceObjs, puzzlePieces, jigsawFlags, piece, comfyStore, trackerVars,
                 pollVars, nextJob, graphVars, interruptVars, otherVars, clientVars>>

\* a variant that counts the pieces finished, not the piece at work
ProgressAtFinished(progress, index) == [progress EXCEPT !.current = index]
\* jigsawBridge.ts 272: generationProgress.value.current = i + 1
ProgressAt(progress, index) == [progress EXCEPT !.current = index + 1]

\* jigsawBridge.ts 276-282: the file name every piece of the batch is edited from
\* (the argument of generateAllPuzzlePieces) and the seeds drawn for
\* Math.floor(Math.random() * 1000000): one value in the batch, whose steps do not
\* depend on it; SpecGraph prepares graphs with other seeds and with none
UploadedFilename == "cat.png"
Seeds == {7}
\* jigsawBridge.ts 276-282: the options runQwenImageEdit is called with
PieceOptions(obj, seed) ==
  [imageFilename |-> UploadedFilename, positivePrompt |-> obj.prompt,
   negativePrompt |-> "blurry, low quality, distorted", seed |-> seed, steps |-> 4]
\* jigsawBridge.ts 269-282 and comfyui.ts 389-434: the loop test, the head of one
\* iteration and runQwenImageEdit up to the await of the POST: the flags, the
\* clone of the workflow with the options written into it, and the request
IterationHead(run) ==
  /\ pc[run] = "iter" /\ i[run] < Len(puzzlePieces)
  /\ \E seed \in Seeds :
       LET options == PieceOptions(pieceObjs[puzzlePieces[i[run] + 1]], seed)
           g == ApplyQwen(DeepClone("qwen", Graph(template, heap)), options)
       IN /\ workflow' = g.root
          /\ heap' = g.heap
          /\ request' = [kind |-> "qwen", options |-> options]
  /\ piece' = [piece EXCEPT ![run] = puzzlePieces[i[run] + 1]]
  /\ pieceObjs' = [pieceObjs EXCEPT ![puzzlePieces[i[run] + 1]] = PieceGenerating(@)]
  /\ generationProgress' = ProgressAt(generationProgress, i[run])
  /\ isProcessing' = TRUE
  /\ comfyError' = Null
  /\ currentProgress' = "Queuing prompt..."
  /\ submitted' = [submitted EXCEPT ![run] = Append(submitted[run], i[run])]
  /\ wire' = Sent("queuePromptWS", clientId)
  /\ pc' = [pc EXCEPT ![run] = "queue"]
  /\ UNCHANGED <<puzzlePieces, jigsawFlags, isGeneratingPieces, error, i, results,
                 generatedImages, trackerVars, pollVars, nextJob, outcome,
                 inputBatch, lastCall, runs, template, template0, requests,
                 interruptVars, otherVars, clientId, streamVars, submitVars>>

\* jigsawBridge.ts 269, 300-301, 306-308: the loop ends, the call returns
BatchReturn(run) ==
  /\ pc[run] = "iter" /\ ~(i[run] < Len(puzzlePieces))
  /\ puzzlePieces' = results[run]
  /\ lastCall' = Call("generateAll", "returned", TRUE, results[run])
  /\ isGeneratingPieces' = FALSE
  /\ pc' = [pc EXCEPT ![run] = "idle"]
  /\ UNCHANGED <<pieceObjs, jigsawFlags, error, generationProgress, i, piece, results,
                 comfyStore, trackerVars, pollVars, nextJob, outcome, submitted,
                 inputBatch, runs, graphVars, interruptVars, otherVars, clientVars>>

\* a variant without the inner try / catch: the exception leaves the loop through
\* the outer catch and finally (jigsawBridge.ts 302-308)
PieceCatchRethrows(run, err) ==
  /\ error' = "Failed to generate puzzle pieces"
  /\ isGeneratingPieces' = FALSE
  /\ lastCall' = Call("generateAll", "threw", FALSE, <<>>)
  /\ pc' = [pc EXCEPT ![run] = "idle"]
  /\ outcome' = [outcome EXCEPT ![run] = Noted(@, i[run] + 1, [kind |-> "threw", err |-> err])]
  /\ UNCHANGED <<pieceObjs, results, i, piece>>
\* jigsawBridge.ts 291-298: the inner catch, the push and the loop increment
PieceCatch(run, err) ==
  /\ pieceObjs' = [pieceObjs EXCEPT ![piece[run]] = PieceAfterThrow(@, err)]
  /\ results' = [results EXCEPT ![run] = ResultsPush(results[run], piece[run])]
  /\ outcome' = [outcome EXCEPT ![run] = Noted(@, i[run] + 1, [kind |-> "threw", err |-> err])]
  /\ i' = [i EXCEPT ![run] = i[run] + 1]
  /\ piece' = [piece EXCEPT ![run] = 0]
  /\ pc' = [pc EXCEPT ![run] = "iter"]
  /\ UNCHANGED <<error, isGeneratingPieces, lastCall>>

\* runQwenImageEdit returned or threw: its locals (the prompt id, the WebSocket
\* and its promises, the poll clock) go out of scope
CallEnds(run) ==
  /\ promptId' = [promptId EXCEPT ![run] = 0]
  /\ ws' = [ws EXCEPT ![run] = "none"]
  /\ opened' = [opened EXCEPT ![run] = "none"]
  /\ done' = [done EXCEPT ![run] = "none"]
  /\ elapsed' = [elapsed EXCEPT ![run] = 0]
  /\ res' = [res EXCEPT ![run] = NoResponse]
  /\ lastEvent' = [lastEvent EXCEPT ![run] = [kind |-> "none"]]
  /\ msgCount' = [msgCount EXCEPT ![run] = 0]
  /\ onNodeLog' = [onNodeLog EXCEPT ![run] = <<>>]

\* comfyui.ts 455-462 then jigsawBridge.ts 291-298: runQwenImageEdit throws err
JobThrows(run, err) ==
  /\ comfyError' = "Failed to run Qwen Image Edit"
  /\ isProcessing' = FALSE
  /\ currentProgress' = ""
  /\ PieceCatch(run, err)
  /\ CallEnds(run)
  /\ UNCHANGED <<puzzlePieces, jigsawFlags, generationProgress, generatedImages,
                 nextJob, submitted, inputBatch, runs, graphVars, interruptVars, otherVars, clientVars>>

\* comfyui.ts 446-462 then jigsawBridge.ts 284-298: waitForOutputs returned outputs
JobReturns(run, outputs) ==
  LET images == imageUrls(buildAssetUrls(outputs))
      result == [promptId |-> promptId[run], images |-> images]
  IN /\ generatedImages' = generatedImages \o images
     /\ isProcessing' = FALSE
     /\ currentProgress' = ""
     /\ pieceObjs' = [pieceObjs EXCEPT ![piece[run]] = PieceAfterResult(@, result)]
     /\ results' = [results EXCEPT ![run] = ResultsPush(results[run], piece[run])]
     /\ outcome' = [outcome EXCEPT ![run] = Noted(@, i[run] + 1, [kind |-> "returned", images |-> images])]
     /\ i' = [i EXCEPT ![run] = i[run] + 1]
     /\ piece' = [piece EXCEPT ![run] = 0]
     /\ pc' = [pc EXCEPT ![run] = "iter"]
     /\ CallEnds(run)
     /\ UNCHANGED <<puzzlePieces, jigsawFlags, isGeneratingPieces, error,
                    generationProgress, comfyError, nextJob, submitted, inputBatch,
                    lastCall, runs, graphVars, interruptVars, otherVars, clientVars>>

\* ------------------------------------------------------------ queuePromptWS
\* comfy.ts 33-37: the remote answers the POST; a success reply carries the id
\* of the job it queued
PostResolves(run, reply) ==
  /\ pc[run] = "queue"
  /\ res' = [res EXCEPT ![run] = reply]
  /\ nextJob' = IF Queues(reply) THEN nextJob + 1 ELSE nextJob
  /\ pc' = [pc EXCEPT ![run] = "post"]
  /\ UNCHANGED <<batchLocals, comfyStore, trackerVars, elapsed, graphVars, interruptVars, otherVars, clientVars>>
\* comfy.ts 33: the request itself fails (network error)
PostThrows(run) ==
  /\ pc[run] = "queue"
  /\ JobThrows(run, FetchFailed)
\* comfy.ts 39, 43-49, comfyui.ts 434-438, comfy.ts 52-56: postJSON returns the
\* body; the WebSocket is created and its open awaited
QueueOk(run) ==
  /\ pc[run] = "post" /\ res[run].ok /\ IsJson(res[run])
  /\ promptId' = [promptId EXCEPT ![run] = res[run].prompt_id]
  /\ res' = [res EXCEPT ![run] = NoResponse]
  /\ currentProgress' = "Processing..."
  /\ ws' = [ws EXCEPT ![run] = "connecting"]
  /\ opened' = [opened EXCEPT ![run] = "pending"]
  /\ done' = [done EXCEPT ![run] = "none"]
  /\ msgCount' = [msgCount EXCEPT ![run] = 0]
  /\ onNodeLog' = [onNodeLog EXCEPT ![run] = <<>>]
  /\ lastEvent' = [lastEvent EXCEPT ![run] = [kind |-> "none"]]
  /\ wire' = Sent("waitUntilFinishedWS", clientId)
  /\ pc' = [pc EXCEPT ![run] = "wsOpen"]
  /\ UNCHANGED <<pieceObjs, puzzlePieces, jigsawFlags, isGeneratingPieces, error,
                 generationProgress, i, piece, results, isProcessing, comfyError,
                 generatedImages, elapsed, nextJob, outcome, submitted, inputBatch,
                 lastCall, runs, graphVars, interruptVars, otherVars, clientId, streamVars, submitVars>>
\* comfy.ts 39, comfyui.ts 435: the body of a success reply is no JSON
QueueBodyThrows(run) ==
  /\ pc[run] = "post" /\ res[run].ok /\ ~IsJson(res[run])
  /\ JobThrows(run, JsonSyntaxError)
\* comfy.ts 38: the remote answered with a non-success status
QueueFail(run) ==
  /\ pc[run] = "post" /\ ~res[run].ok
  /\ JobThrows(run, PostFailed("/prompt", res[run]))

\* ------------------------------------------------------------ waitUntilFinishedWS
\* A promise settles once: later resolve / reject calls are ignored.
Settle(promise, to) == IF promise = "pending" THEN to ELSE promise

\* Frames the service may send on the channel of this client id. prompt_id -1
\* stands for an event without data.prompt_id.
NoNode == ""
Frames(run) ==
  [data : {"text"}, json : {"ok"}, type : {"executing"},
   prompt_id : {promptId[run], promptId[run] - 1}, node : {Null, NoNode, "5", "7"}]
  \cup { [data |-> "text", json |-> "ok", type |-> "progress",
          prompt_id |-> promptId[run], node |-> Null],
         [data |-> "text", json |-> "bad", type |-> "", prompt_id |-> -1,
          node |-> NoNode],
         [data |-> "binary", json |-> "bad", type |-> "", prompt_id |-> -1,
          node |-> NoNode] }

\* the 'executing' events of the tracked job alone
OwnFrames(run) == {f \in Frames(run) : f.type = "executing" /\ f.prompt_id = promptId[run]
                              /\ f.node # NoNode}

\* a variant that does not compare the prompt id
IsAnyExecuting(frame, tracked) ==
  /\ frame.data = "text"
  /\ frame.json = "ok"
  /\ frame.type = "executing"
\* comfy.ts 59-62: the frame is a parseable 'executing' event of the tracked job
IsTrackedExecuting(frame, tracked) ==
  /\ frame.data = "text"
  /\ frame.json = "ok"
  /\ frame.type = "executing"
  /\ frame.prompt_id = tracked
\* a variant that reports the nodes of every job
OnNodeCallsAnyJob(frame, tracked) ==
  IF IsAnyExecuting(frame, tracked) /\ Truthy(frame.node)
  THEN <<frame.node>> ELSE <<>>
\* comfy.ts 63: the node ids onNode is called with for this frame
OnNodeCalls(frame, tracked) ==
  IF IsTrackedExecuting(frame, tracked) /\ Truthy(frame.node)
  THEN <<frame.node>> ELSE <<>>
\* comfy.ts 64: the frame closes the socket and resolves the promise
IsSentinel(frame, tracked) ==
  IsTrackedExecuting(frame, tracked) /\ frame.node = Null
\* a variant without the onclose handler
OnCloseIgnored(promise) == promise
\* comfy.ts 69: what onclose does to the second promise
OnCloseSettle(promise) == Settle(promise, "resolved")
\* comfyui.ts 438-440: the progress callback
ProgressText(nodeId) == "Processing node: " \o nodeId

\* comfy.ts 54: the open handshake succeeded
WsOpen(run) ==
  /\ pc[run] = "wsOpen" /\ ws[run] = "connecting"
  /\ ws' = [ws EXCEPT ![run] = "open"]
  /\ opened' = [opened EXCEPT ![run] = Settle(opened[run], "resolved")]
  /\ lastEvent' = [lastEvent EXCEPT ![run] = [kind |-> "open"]]
  /\ UNCHANGED <<batchLocals, pc, comfyStore, promptId, done, msgCount, onNodeLog,
                 pollVars, nextJob, graphVars, interruptVars, otherVars, clientVars>>
\* comfy.ts 55: the connection failed before it opened
WsErrorBeforeOpen(run) ==
  /\ pc[run] = "wsOpen" /\ ws[run] = "connecting"
  /\ ws' = [ws EXCEPT ![run] = "closed"]
  /\ opened' = [opened EXCEPT ![run] = Settle(opened[run], "rejected")]
  /\ lastEvent' = [lastEvent EXCEPT ![run] = [kind |-> "error"]]
  /\ UNCHANGED <<batchLocals, pc, comfyStore, promptId, done, msgCount, onNodeLog,
                 pollVars, nextJob, graphVars, interruptVars, otherVars, clientVars>>
\* comfy.ts 53-57: the await of the first promise resumes; the second promise is
\* created and onmessage / onclose are installed
ListenStart(run) ==
  /\ pc[run] = "wsOpen" /\ opened[run] = "resolved"
  /\ done' = [done EXCEPT ![run] = "pending"]
  /\ pc' = [pc EXCEPT ![run] = "listening"]
  /\ UNCHANGED <<batchLocals, comfyStore, promptId, ws, opened, lastEvent, msgCount,
                 onNodeLog, pollVars, nextJob, graphVars, interruptVars, otherVars, clientVars>>
\* comfy.ts 53-56: the await of the first promise throws the error event
OpenRejected(run) ==
  /\ pc[run] = "wsOpen" /\ opened[run] = "rejected"
  /\ JobThrows(run, WsErrorEvent)
\* comfy.ts 55: an error event after the open: reject on a settled promise
WsErrorAfterOpen(run) ==
  /\ pc[run] = "listening" /\ ws[run] = "open" /\ done[run] = "pending"
  /\ opened' = [opened EXCEPT ![run] = Settle(opened[run], "rejected")]
  /\ lastEvent' = [lastEvent EXCEPT ![run] = [kind |-> "error"]]
  /\ UNCHANGED <<batchLocals, pc, comfyStore, promptId, ws, done, msgCount,
                 onNodeLog, pollVars, nextJob, graphVars, interruptVars, otherVars, clientVars>>
\* comfy.ts 58-68: one frame arrives
WsMessage(run, frame) ==
  /\ pc[run] = "listening" /\ ws[run] = "open" /\ done[run] = "pending"
  /\ msgCount[run] < MaxMsgs
  /\ msgCount' = [msgCount EXCEPT ![run] = msgCount[run] + 1]
  /\ lastEvent' = [lastEvent EXCEPT ![run] = [kind |-> "message", frame |-> frame]]
  /\ onNodeLog' = [onNodeLog EXCEPT ![run] = onNodeLog[run] \o OnNodeCalls(frame, promptId[run])]
  /\ currentProgress' = IF OnNodeCalls(frame, promptId[run]) # <<>>
                        THEN ProgressText(OnNodeCalls(frame, promptId[run])[1])
                        ELSE currentProgress
  /\ IF IsSentinel(frame, promptId[run])
     THEN /\ ws' = [ws EXCEPT ![run] = "closing"]
          /\ done' = [done EXCEPT ![run] = Settle(done[run], "resolved")]
     ELSE UNCHANGED <<ws, done>>
  /\ UNCHANGED <<batchLocals, pc, isProcessing, comfyError, generatedImages,
                 promptId, opened, pollVars, nextJob, graphVars, interruptVars, otherVars, clientVars>>
\* comfy.ts 69: the channel closes before the sentinel was seen. (The close event
\* that follows the client's own ws.close() calls resolve on the settled promise
\* of a call that has returned: it changes nothing and is not an action.)
WsClose(run) ==
  /\ pc[run] = "listening" /\ ws[run] = "open" /\ done[run] = "pending"
  /\ ws' = [ws EXCEPT ![run] = "closed"]
  /\ done' = [done EXCEPT ![run] = OnCloseSettle(done[run])]
  /\ lastEvent' = [lastEvent EXCEPT ![run] = [kind |-> "close"]]
  /\ UNCHANGED <<batchLocals, pc, comfyStore, promptId, opened, msgCount, onNodeLog,
                 pollVars, nextJob, graphVars, interruptVars, otherVars, clientVars>>
\* a variant that takes the tracker's word and returns without asking the
\* history endpoint
ListenDoneTrusting(run) ==
  /\ pc[run] = "listening" /\ done[run] = "resolved"
  /\ JobReturns(run, <<>>)
\* comfy.ts 57, 70-71, comfyui.ts 443-444, comfy.ts 184: the await of the second
\* promise resumes, waitUntilFinishedWS returns (its socket and promises go out
\* of scope) and waitForOutputs starts
ListenDone(run) ==
  /\ pc[run] = "listening" /\ done[run] = "resolved"
  /\ currentProgress' = "Fetching results..."
  /\ ws' = [ws EXCEPT ![run] = "none"]
  /\ opened' = [opened EXCEPT ![run] = "none"]
  /\ done' = [done EXCEPT ![run] = "none"]
  /\ msgCount' = [msgCount EXCEPT ![run] = 0]
  /\ onNodeLog' = [onNodeLog EXCEPT ![run] = <<>>]
  /\ elapsed' = [elapsed EXCEPT ![run] = 0]
  /\ pc' = [pc EXCEPT ![run] = "poll"]
  /\ UNCHANGED <<batchLocals, isProcessing, comfyError, generatedImages, promptId,
                 lastEvent, res, nextJob, graphVars, interruptVars, otherVars, clientVars>>

\* ------------------------------------------------------------ waitForOutputs
\* a variant that allows one more poll interval
TimeoutLate(t) == t > timeoutMs + pollMs
\* comfy.ts 186: Date.now() - t0 > timeoutMs
TimeoutElapsed(t) == t > timeoutMs
\* comfy.ts 186: the timeout test at the head of the loop
PollTimeout(run) ==
  /\ pc[run] = "poll" /\ TimeoutElapsed(elapsed[run])
  /\ JobThrows(run, TimeoutError)
\* comfy.ts 186-187: the test passes and the request is sent
PollFetch(run) ==
  /\ pc[run] = "poll" /\ ~TimeoutElapsed(elapsed[run])
  /\ pc' = [pc EXCEPT ![run] = "fetch"]
  /\ UNCHANGED <<batchLocals, comfyStore, trackerVars, pollVars, nextJob, graphVars, interruptVars, otherVars, clientVars>>
\* comfy.ts 187: fetch rejects (network error); nothing in waitForOutputs
\* catches it
FetchThrows(run) ==
  /\ pc[run] = "fetch"
  /\ JobThrows(run, FetchFailed)
\* comfy.ts 187-189, 195: the history endpoint answers after d ms; on a success
\* status the body is read next, otherwise the loop goes to its sleep
FetchResolves(run, reply, d) ==
  /\ pc[run] = "fetch"
  /\ res' = [res EXCEPT ![run] = reply]
  /\ elapsed' = [elapsed EXCEPT ![run] = elapsed[run] + d]
  /\ pc' = [pc EXCEPT ![run] = IF reply.ok THEN "json" ELSE "sleep"]
  /\ UNCHANGED <<batchLocals, comfyStore, trackerVars, nextJob, graphVars, interruptVars, otherVars, clientVars>>
\* comfy.ts 189-195: the body holds no outputs for the job
FetchNotReady(run) ==
  /\ pc[run] = "json" /\ IsRecord(res[run]) /\ ~PollReturns(res[run], promptId[run])
  /\ pc' = [pc EXCEPT ![run] = "sleep"]
  /\ UNCHANGED <<batchLocals, comfyStore, trackerVars, pollVars, nextJob, graphVars, interruptVars, otherVars, clientVars>>
\* comfy.ts 189: the body is no JSON; nothing in waitForOutputs catches the
\* SyntaxError
FetchBodyThrows(run) ==
  /\ pc[run] = "json" /\ ~IsRecord(res[run])
  /\ JobThrows(run, JsonSyntaxError)
\* comfy.ts 189-193: the body holds outputs for the job
FetchOutputs(run) ==
  /\ pc[run] = "json" /\ PollReturns(res[run], promptId[run])
  /\ JobReturns(run, PollValue(res[run], promptId[run]))
\* comfy.ts 195: the sleep between two polls
PollSleep(run) ==
  /\ pc[run] = "sleep"
  /\ elapsed' = [elapsed EXCEPT ![run] = elapsed[run] + pollMs]
  /\ res' = [res EXCEPT ![run] = NoResponse]
  /\ pc' = [pc EXCEPT ![run] = "poll"]
  /\ UNCHANGED <<batchLocals, comfyStore, trackerVars, nextJob, graphVars, interruptVars, otherVars, clientVars>>

\* ------------------------------------------------------------ interrupt
\* a WebSocket that has been created and has not closed
Live(socket) == socket \in {"connecting", "open"}
\* what GET /queue may answer: a non-success status, a queue, or a success
\* status with a body that is no JSON
QueueReplies ==
  { [ok |-> FALSE, status |-> 500],
    [ok |-> TRUE, status |-> 200, text |-> "<html>"],
    [ok |-> TRUE, status |-> 200,
     data |-> [queue_running |-> <<>>, queue_pending |-> <<>>]],
    [ok |-> TRUE, status |-> 200,
     data |-> [queue_running |-> <<1>>, queue_pending |-> <<>>]] }
\* everything but the variables the operations of this section write
storeFrame == <<batchLocals, pc, isProcessing, currentProgress, generatedImages,
                trackerVars, pollVars, nextJob, graphVars, clientVars, otherVars>>
\* comfyui.ts 343-344: updateQueue, called by caller, sends GET /queue
QueueRequested(caller) ==
  [updates EXCEPT ![caller] = [pc |-> "fetch", res |-> NoResponse]]
\* a store operation returned value
StoreReturned(op, value) ==
  [storeCalls EXCEPT ![op] = [NoStoreCall EXCEPT
                                !.result = [state |-> "returned", value |-> value]]]
\* a store operation rethrew err
StoreThrew(op, err) ==
  [storeCalls EXCEPT ![op] = [NoStoreCall EXCEPT
                                !.result = [state |-> "threw", err |-> err]]]
\* comfyui.ts 353-355: the call, up to the await of POST /interrupt
interrupt ==
  /\ interruptPc = "idle"
  /\ interruptPc' = "post"
  /\ UNCHANGED <<batchVars, graphVars, clientVars, queue, storeVars, otherVars>>
\* a variant that also gives up the call in flight: its socket is closed and
\* its piece marked
interruptResolvesCancelling ==
  /\ interruptPc = "post"
  /\ isProcessing' = FALSE
  /\ interruptPc' = "queue"
  /\ updates' = QueueRequested("interrupt")
  /\ ws' = [run \in Runs |-> IF Live(ws[run]) THEN "closed" ELSE ws[run]]
  /\ done' = [run \in Runs |-> Settle(done[run], "resolved")]
  /\ pieceObjs' = [a \in DOMAIN pieceObjs |->
                     IF pieceObjs[a].status = "generating"
                     THEN [pieceObjs[a] EXCEPT !.status = "error"]
                     ELSE pieceObjs[a]]
  /\ UNCHANGED <<puzzlePieces, jigsawFlags, isGeneratingPieces, error,
                 generationProgress, pc, i, piece, results, comfyError, currentProgress,
                 generatedImages, promptId, opened, lastEvent, msgCount, onNodeLog,
                 pollVars, nextJob, runHistory, graphVars, clientVars, queue,
                 isConnected, history, storeCalls, otherVars>>
\* comfyui.ts 355-357, 343-344: the remote answered the POST (with whatever
\* status); the flag is cleared and updateQueue sends GET /queue
interruptResolves ==
  /\ interruptPc = "post"
  /\ isProcessing' = FALSE
  /\ interruptPc' = "queue"
  /\ updates' = QueueRequested("interrupt")
  /\ UNCHANGED <<batchLocals, pc, comfyError, currentProgress, generatedImages,
                 trackerVars, pollVars, nextJob, graphVars, clientVars, queue,
                 isConnected, history, storeCalls, otherVars>>
\* comfyui.ts 355, 358-361: the POST itself failed
interruptThrows ==
  /\ interruptPc = "post"
  /\ comfyError' = "Failed to interrupt"
  /\ interruptPc' = "idle"
  /\ UNCHANGED <<storeFrame, queue, storeVars>>
\* comfyui.ts 342-344: updateQueue called on its own
updateQueue ==
  /\ updates["direct"].pc = "idle"
  /\ updates' = QueueRequested("direct")
  /\ UNCHANGED <<storeFrame, comfyError, interruptPc, queue, isConnected, history,
                 storeCalls>>
\* comfyui.ts 347-351 with 357-358 and 332-334: updateQueue returns (it throws
\* nothing) and its caller goes on: interrupt returns; checkConnection clears
\* the error and returns true
updateQueueReturns(caller) ==
  /\ updates' = [updates EXCEPT ![caller] = NoUpdate]
  /\ interruptPc' = IF caller = "interrupt" THEN "idle" ELSE interruptPc
  /\ comfyError' = IF caller = "checkConnection" THEN Null ELSE comfyError
  /\ storeCalls' = IF caller = "checkConnection"
                   THEN StoreReturned("checkConnection", TRUE)
                   ELSE storeCalls
\* comfyui.ts 344-346: GET /queue is answered: the body of a success reply is
\* read; with another status updateQueue returns
updateQueueResolves(caller, reply) ==
  /\ updates[caller].pc = "fetch"
  /\ IF reply.ok
     THEN /\ updates' = [updates EXCEPT ![caller] = [pc |-> "body", res |-> reply]]
          /\ UNCHANGED <<interruptPc, comfyError, storeCalls>>
     ELSE updateQueueReturns(caller)
  /\ UNCHANGED <<storeFrame, queue, isConnected, history>>
\* comfyui.ts 344, 348-350: GET /queue itself fails; the error is logged
updateQueueRejects(caller) ==
  /\ updates[caller].pc = "fetch"
  /\ updateQueueReturns(caller)
  /\ UNCHANGED <<storeFrame, queue, isConnected, history>>
\* comfyui.ts 346-350: the body is read: a JSON body becomes queue.value; the
\* error of a body that is no JSON is logged
updateQueueSettles(caller) ==
  /\ updates[caller].pc = "body"
  /\ queue' = IF "data" \in DOMAIN updates[caller].res
              THEN updates[caller].res.data ELSE queue
  /\ updateQueueReturns(caller)
  /\ UNCHANGED <<storeFrame, isConnected, history>>

\* comfyui.ts 482-489: clearGeneratedImages (the URLs the store holds are /view
\* URLs, none a blob: URL to revoke); a call that finds the list empty changes
\* nothing
clearGeneratedImages ==
  /\ generatedImages' = <<>>
  /\ UNCHANGED <<batchLocals, pc, isProcessing, comfyError, currentProgress,
                 trackerVars, pollVars, nextJob, graphVars, clientVars, interruptVars,
                 otherVars>>

\* ------------------------------------------------------------ specification
GraphIdle ==
  /\ heap = EditQwenWorkflow.heap
  /\ template = EditQwenWorkflow.root
  /\ workflow = <<>>
  /\ template0 = Value(EditQwenWorkflow)
  /\ request = [kind |-> "qwen", options |-> <<>>]
  /\ requests = 0

\* no call of buildAssetUrls has been made
AssetsIdle == assetsIn = <<>> /\ assetsOut = NoResult

\* the remote service has run no job
RemoteIdle == remote = [finished |-> {}, lost |-> {}]
\* comfy.ts 234: no call of runSdxlWithPrompts yet
SdxlIdle == sdxl = [pc |-> "idle"]
\* no call of runSAM3Segmentation has been made
NoSam3 == [pc |-> "idle", promptId |-> 0, res |-> NoResponse, result |-> NoResult]
Sam3Idle == sam3 = [c \in Calls |-> NoSam3]
\* jigsawBridge.ts 19-29: the refs as constructed; jigsawBridgeService.ts 57-62:
\* the constructor assigns visionService only, editService stays undefined
JigsawInitial ==
  [currentAnalysis |-> NoAnalysis, contextAwarePrompt |-> "", jigsawCutPattern |-> "",
   editResponse |-> "", suggestions |-> <<>>, currentImage |-> Null,
   detectPeople |-> FALSE, isEditing |-> FALSE]
\* config.ts 12: the vision model of the configuration
DefaultVisionModel == "qwen2-vl"
JigsawIdle ==
  /\ jigsaw = JigsawInitial
  /\ service = [editService |-> Undefined, visionModel |-> DefaultVisionModel,
                ops |-> [c \in Calls |-> NoCall]]

Init == BatchInit /\ GraphIdle /\ ClientInit /\ AssetsIdle /\ RemoteIdle /\ JigsawIdle /\ SdxlIdle /\ Sam3Idle

\* No operation of the jigsaw store is in flight. The store does not order
\* operations that overlap; a caller that needs an order starts an operation
\* when the one before has ended.
Quiet ==
  /\ \A run \in Runs : pc[run] = "idle"
  /\ \A c \in Calls : service.ops[c].pc = "idle"
\* the heap has room for n more piece objects
Room(n) == Len(pieceObjs) + n <= MaxObjects
\* such a caller prepares a jigsaw of at most n pieces
CallPrepare(n) ==
  \E c \in Calls : Quiet /\ Room(n) /\ prepareMultiPieceJigsaw(c, ImageA)
\* such a caller starts a run
CallGenerateAll ==
  \E run \in Runs :
    /\ Quiet /\ (runs < MaxRuns \/ puzzlePieces = <<>>)
    /\ generateAllPuzzlePieces(run)

\* A history endpoint that settles the job within MaxPolls polls: every later
\* request shows the outputs, or hangs until the call has timed out.
JobSettles(run, reply, d) ==
  \/ elapsed[run] < MaxPolls * pollMs /\ d < timeoutMs
  \/ PollReturns(reply, promptId[run]) /\ d < timeoutMs
  \/ d = timeoutMs

Next ==
  \/ CallPrepare(MaxPieces)
  \/ \E c \in Calls, n \in 0..MaxPieces : prepareResolved(c, n)
  \/ \E c \in Calls : prepareVisionFails(c)
  \/ CallGenerateAll
  \/ \E run \in Runs : IterationHead(run)
  \/ \E run \in Runs : BatchReturn(run)
  \/ \E run \in Runs : pc[run] = "queue" /\ \E reply \in TypicalPostReplies(nextJob) : PostResolves(run, reply)
  \/ \E run \in Runs : PostThrows(run)
  \/ \E run \in Runs : QueueOk(run)
  \/ \E run \in Runs : QueueFail(run)
  \/ \E run \in Runs : WsOpen(run)
  \/ \E run \in Runs : WsErrorBeforeOpen(run)
  \/ \E run \in Runs : ListenStart(run)
  \/ \E run \in Runs : OpenRejected(run)
  \/ \E run \in Runs : WsErrorAfterOpen(run)
  \/ \E run \in Runs : pc[run] = "listening" /\ \E frame \in OwnFrames(run) : WsMessage(run, frame)
  \/ \E run \in Runs : WsClose(run)
  \/ \E run \in Runs : ListenDone(run)
  \/ \E run \in Runs : PollTimeout(run)
  \/ \E run \in Runs : PollFetch(run)
  \/ \E run \in Runs : FetchThrows(run)
  \/ \E run \in Runs : pc[run] = "fetch" /\ \E reply \in TypicalHistoryReplies(promptId[run]), d \in TypicalLatency :
       JobSettles(run, reply, d) /\ FetchResolves(run, reply, d)
  \/ \E run \in Runs : FetchNotReady(run)
  \/ \E run \in Runs : FetchBodyThrows(run)
  \/ \E run \in Runs : FetchOutputs(run)
  \/ \E run \in Runs : PollSleep(run)
  \/ generatedImages # <<>> /\ clearGeneratedImages

Spec == Init /\ [][Next]_vars

\* One job of a one-piece batch, with every kind of reply and every kind of
\* frame on its channel; the caller prepares the piece once.
TrackerStep ==
  \/ puzzlePieces = <<>> /\ CallPrepare(1)
  \/ \E c \in Calls : prepareResolved(c, 1)
  \/ CallGenerateAll /\ puzzlePieces # <<>>
  \/ \E run \in Runs : IterationHead(run)
  \/ \E run \in Runs : BatchReturn(run)
  \/ \E run \in Runs : pc[run] = "queue" /\ \E reply \in PostReplies(nextJob) : PostResolves(run, reply)
  \/ \E run \in Runs : PostThrows(run)
  \/ \E run \in Runs : QueueOk(run)
  \/ \E run \in Runs : QueueBodyThrows(run)
  \/ \E run \in Runs : QueueFail(run)
  \/ \E run \in Runs : WsOpen(run)
  \/ \E run \in Runs : WsErrorBeforeOpen(run)
  \/ \E run \in Runs : ListenStart(run)
  \/ \E run \in Runs : OpenRejected(run)
  \/ \E run \in Runs : WsErrorAfterOpen(run)
  \/ \E run \in Runs : pc[run] = "listening" /\ \E frame \in Frames(run) : WsMessage(run, frame)
  \/ \E run \in Runs : WsClose(run)
  \/ \E run \in Runs : ListenDone(run)
  \/ \E run \in Runs : PollTimeout(run)
  \/ \E run \in Runs : PollFetch(run)
  \/ \E run \in Runs : FetchThrows(run)
  \/ \E run \in Runs : FetchNotReady(run)
  \/ \E run \in Runs : FetchBodyThrows(run)
  \/ \E run \in Runs : FetchOutputs(run)
  \/ \E run \in Runs : PollSleep(run)
  \/ generatedImages # <<>> /\ clearGeneratedImages
\* with a history endpoint that answers anything, each request taking up to
\* MaxLatency poll intervals, and that settles the job within MaxPolls polls
NextTracker ==
  \/ TrackerStep
  \/ \E run \in Runs : pc[run] = "fetch" /\ \E reply \in HistoryReplies(promptId[run]), d \in Latencies \cup {timeoutMs} :
       JobSettles(run, reply, d) /\ FetchResolves(run, reply, d)

SpecTracker == Init /\ [][NextTracker]_vars

\* the replies of a remote whose queue holds the job that was interrupted
BusyQueueReplies == {r \in QueueReplies : "data" \in DOMAIN r => r.data.queue_running # <<>>}
\* One job of a one-piece batch, with calls of interrupt at any moment.
NextInterrupt ==
  \/ TrackerStep
  \/ \E run \in Runs : pc[run] = "fetch" /\ \E reply \in HistoryReplies(promptId[run]), d \in Latencies \cup {timeoutMs} :
       JobSettles(run, reply, d) /\ FetchResolves(run, reply, d)
  \/ interrupt
  \/ interruptResolves
  \/ interruptThrows
  \/ \E reply \in BusyQueueReplies : updateQueueResolves("interrupt", reply)
  \/ updateQueueRejects("interrupt")
  \/ updateQueueSettles("interrupt")

SpecInterrupt == Init /\ [][NextInterrupt]_vars

\* One job whose history never shows outputs: the endpoint answers every poll,
\* with a non-success status or without outputs for the job. Timers fire and
\* requests are answered, so no step of the polling loop waits forever.
NeverReady(job) == {r \in HistoryReplies(job) : (r.ok => IsRecord(r)) /\ ~PollReturns(r, job)}
PollStep ==
  \/ \E run \in Runs : PollTimeout(run)
  \/ \E run \in Runs : PollFetch(run)
  \/ \E run \in Runs : pc[run] = "fetch" /\ \E reply \in NeverReady(promptId[run]), d \in Latencies : FetchResolves(run, reply, d)
  \/ \E run \in Runs : FetchNotReady(run)
  \/ \E run \in Runs : PollSleep(run)
NextNeverReady ==
  \/ puzzlePieces = <<>> /\ CallPrepare(1)
  \/ \E c \in Calls : prepareResolved(c, 1)
  \/ CallGenerateAll /\ puzzlePieces # <<>>
  \/ \E run \in Runs : IterationHead(run)
  \/ \E run \in Runs : BatchReturn(run)
  \/ \E run \in Runs : pc[run] = "queue" /\ \E reply \in PostReplies(nextJob) : PostResolves(run, reply)
  \/ \E run \in Runs : PostThrows(run)
  \/ \E run \in Runs : QueueOk(run)
  \/ \E run \in Runs : QueueBodyThrows(run)
  \/ \E run \in Runs : QueueFail(run)
  \/ \E run \in Runs : WsOpen(run)
  \/ \E run \in Runs : WsErrorBeforeOpen(run)
  \/ \E run \in Runs : ListenStart(run)
  \/ \E run \in Runs : OpenRejected(run)
  \/ \E run \in Runs : WsErrorAfterOpen(run)
  \/ \E run \in Runs : pc[run] = "listening" /\ \E frame \in Frames(run) : WsMessage(run, frame)
  \/ \E run \in Runs : WsClose(run)
  \/ \E run \in Runs : ListenDone(run)
  \/ PollStep

SpecNeverReady == Init /\ [][NextNeverReady]_vars /\ WF_vars(PollStep)

\* ------------------------------------------------------------ runPromptAndStreamImages
\* Binary frames are byte sequences; a Blob is the byte sequence it holds.
Bytes(n, first) == [k \in 1..n |-> first + k - 1]
BinaryChoices ==
  { Bytes(headerBytes - 1, 1), Bytes(headerBytes, 1), Bytes(headerBytes + 1, 1),
    Bytes(headerBytes + 2, 1), Bytes(headerBytes + 2, 101) }
\* The frames the service may send to a call that tracks the job id job: text
\* frames with a JSON body (prompt_id -1: no data.prompt_id; node undefined: no
\* data.node), a text frame that is not JSON, binary frames whose payload is a
\* Blob, and a frame whose payload is neither a string nor a Blob (it has no
\* slice method).
StreamFrames(job) ==
  [data : {"text"}, json : {"ok"}, type : {"executing"},
   prompt_id : {job, job - 1},
   node : {Null, Undefined, DefaultCaptureId, "9"}]
  \cup { [data |-> "text", json |-> "ok", type |-> "progress", prompt_id |-> job,
          node |-> "9"],
         [data |-> "text", json |-> "bad", type |-> "", prompt_id |-> -1,
          node |-> Undefined] }
  \cup { [data |-> "binary", blob |-> TRUE, bytes |-> b] : b \in BinaryChoices }
  \cup { [data |-> "binary", blob |-> FALSE, bytes |-> <<>>] }

\* a variant that keeps the header
SliceKeepsHeader(blob, start) == blob
\* Blob.slice(start): the bytes from offset start on (none if start >= size)
Slice(blob, start) == SubSeq(blob, start + 1, Len(blob))
\* a variant that captures whatever node is executing
CapturesAlways(node, capture) == TRUE
\* comfy.ts 127: currentNode === captureId
Captures(node, capture) == node = capture
\* a variant that never takes the event's node
CoalesceKeeps(value, fallback) == fallback
\* comfy.ts 110: d.node ?? currentNode
Coalesce(value, fallback) == IF value \in {Null, Undefined} THEN fallback ELSE value
\* a variant that makes a URL for the first blob only
ObjectUrlsFirstOnly(store, blobs) ==
  IF blobs = <<>> THEN <<>> ELSE <<Len(store) + 1>>
\* comfy.ts 113, 138: imageBlobs.map(b => URL.createObjectURL(b)); the URL made
\* for a blob is the index of its entry in the blob URL store
ObjectUrls(store, blobs) == [k \in 1..Len(blobs) |-> Len(store) + k]
\* a settled promise ignores later resolve / reject calls
SettleWith(promise, state, value) ==
  IF promise.state = "pending" THEN Promise(state, value) ELSE promise
\* the continuation of an await whose promise has settled runs before the next
\* event is dispatched
StreamResumes ==
  \/ streamPc = "wsOpen" /\ openPromise.state \in {"resolved", "rejected"}
  \/ streamPc = "listening" /\ donePromise.state \in {"resolved", "rejected"}
batchState == <<batchLocals, pc, comfyStore, trackerVars, pollVars>>

\* comfy.ts 75-84, 43-49: the call, up to the await of the POST
runPromptAndStreamImages(options) ==
  /\ streamPc = "idle"
  /\ captureId' = Coalesce(Get(options, "captureNodeId"), DefaultCaptureId)
  /\ wire' = Sent("queuePromptWS", clientId)
  /\ streamPc' = "queue"
  /\ UNCHANGED <<batchVars, graphVars, interruptVars, otherVars, clientId, streamJob, onErrorLog, streamWs, openPromise,
                 donePromise, currentNode, imageBlobs, objectUrls, frameCount,
                 streamEvent, streamResult, streamRes, submitVars>>
\* comfy.ts 33-37: the remote answers the POST
StreamPostResolves(reply) ==
  /\ streamPc = "queue"
  /\ streamRes' = reply
  /\ nextJob' = IF Queues(reply) THEN nextJob + 1 ELSE nextJob
  /\ streamPc' = "post"
  /\ UNCHANGED <<batchState, graphVars, interruptVars, otherVars, clientId, wire,
                 captureId, streamJob, streamWs, openPromise, donePromise,
                 currentNode, imageBlobs, objectUrls, frameCount, streamEvent,
                 onErrorLog, streamResult, submitVars>>
\* what the call throws before it has created its WebSocket
StreamPostThrew(err) ==
  /\ streamResult' = [state |-> "threw", err |-> err]
  /\ streamPc' = "threw"
  /\ UNCHANGED <<batchVars, graphVars, interruptVars, otherVars, clientId, wire,
                 captureId, streamRes, streamJob, onErrorLog, streamWs,
                 openPromise, donePromise, currentNode, imageBlobs, objectUrls,
                 frameCount, streamEvent, submitVars>>
\* comfy.ts 33, 84: the request itself fails (network error)
StreamPostThrows ==
  /\ streamPc = "queue"
  /\ StreamPostThrew(FetchFailed)
\* comfy.ts 39, 84: the body of a success reply is no JSON
StreamBodyThrows ==
  /\ streamPc = "post" /\ streamRes.ok /\ ~IsJson(streamRes)
  /\ StreamPostThrew(JsonSyntaxError)
\* comfy.ts 39, 84-96: postJSON returns the body; the WebSocket is created and
\* its open awaited
StreamQueueOk ==
  /\ streamPc = "post" /\ streamRes.ok /\ IsJson(streamRes)
  /\ streamJob' = streamRes.prompt_id
  /\ streamRes' = NoResponse
  /\ streamWs' = "connecting"
  /\ wire' = Sent("runPromptAndStreamImages", clientId)
  /\ imageBlobs' = <<>>
  /\ currentNode' = ""
  /\ openPromise' = Promise("pending", <<>>)
  /\ streamPc' = "wsOpen"
  /\ UNCHANGED <<batchVars, graphVars, interruptVars, otherVars, clientId, captureId, donePromise, objectUrls,
                 frameCount, streamEvent, onErrorLog, streamResult, submitVars>>
\* comfy.ts 38, 84: the remote answered with a non-success status
StreamQueueFail ==
  /\ streamPc = "post" /\ ~streamRes.ok
  /\ StreamPostThrew(PostFailed("/prompt", streamRes))
\* comfy.ts 92: the open handshake succeeded
StreamWsOpen ==
  /\ streamPc = "wsOpen" /\ streamWs = "connecting"
  /\ streamWs' = "open"
  /\ openPromise' = SettleWith(openPromise, "resolved", <<>>)
  /\ streamEvent' = [kind |-> "open"]
  /\ UNCHANGED <<batchVars, graphVars, interruptVars, otherVars, clientId, wire, streamPc, captureId, streamRes, streamJob, onErrorLog,
                 donePromise, currentNode, imageBlobs, objectUrls, frameCount,
                 streamResult, submitVars>>
\* comfy.ts 93: the connection failed before it opened
StreamWsErrorBeforeOpen ==
  /\ streamPc = "wsOpen" /\ streamWs = "connecting"
  /\ streamWs' = "closed"
  /\ openPromise' = SettleWith(openPromise, "rejected", WsErrorEvent)
  /\ streamEvent' = [kind |-> "error"]
  /\ UNCHANGED <<batchVars, graphVars, interruptVars, otherVars, clientId, wire, streamPc, captureId, streamRes, streamJob, onErrorLog,
                 donePromise, currentNode, imageBlobs, objectUrls, frameCount,
                 streamResult, submitVars>>
\* comfy.ts 96-145: the await of openPromise resumes; donePromise is created and
\* onmessage, onclose and onerror are installed
StreamListenStart ==
  /\ streamPc = "wsOpen" /\ openPromise.state = "resolved"
  /\ donePromise' = Promise("pending", <<>>)
  /\ streamPc' = "listening"
  /\ UNCHANGED <<batchVars, graphVars, interruptVars, otherVars, clientId, wire, captureId, streamRes, streamJob, onErrorLog, streamWs,
                 openPromise, currentNode, imageBlobs, objectUrls, frameCount,
                 streamEvent, streamResult, submitVars>>
\* comfy.ts 96: the await of openPromise throws the error event
StreamOpenRejected ==
  /\ streamPc = "wsOpen" /\ openPromise.state = "rejected"
  /\ streamResult' = [state |-> "threw", err |-> openPromise.value]
  /\ streamPc' = "threw"
  /\ UNCHANGED <<batchVars, graphVars, interruptVars, otherVars, clientId, wire, captureId, streamRes, streamJob, onErrorLog, streamWs,
                 openPromise, donePromise, currentNode, imageBlobs, objectUrls,
                 frameCount, streamEvent, submitVars>>
\* what JSON.parse throws on a text frame that is no JSON
ParseError == [isError |-> TRUE, message |-> "Unexpected token in JSON"]
\* a variant whose catch rejects the promise of the call
StreamTextStrict(frame) ==
  LET tracked == /\ frame.json = "ok" /\ frame.type = "executing"
                 /\ frame.prompt_id = streamJob
      finished == tracked /\ frame.node = Null
      urls == ObjectUrls(objectUrls, imageBlobs)
  IN /\ currentNode' = IF tracked THEN Coalesce(frame.node, currentNode)
                        ELSE currentNode
     /\ IF finished
        THEN /\ streamWs' = "closing"
             /\ objectUrls' = objectUrls \o imageBlobs
             /\ donePromise' = SettleWith(donePromise, "resolved", urls)
        ELSE /\ donePromise' = IF frame.json = "ok" THEN donePromise
                               ELSE SettleWith(donePromise, "rejected", ParseError)
             /\ UNCHANGED <<streamWs, objectUrls>>
     /\ UNCHANGED <<imageBlobs, onErrorLog>>
\* comfy.ts 101-122: a text frame
StreamText(frame) ==
  LET tracked == /\ frame.json = "ok" /\ frame.type = "executing"
                 /\ frame.prompt_id = streamJob
      finished == tracked /\ frame.node = Null
      urls == ObjectUrls(objectUrls, imageBlobs)
  IN /\ currentNode' = IF tracked THEN Coalesce(frame.node, currentNode)
                        ELSE currentNode
     /\ IF finished
        THEN /\ streamWs' = "closing"
             /\ objectUrls' = objectUrls \o imageBlobs
             /\ donePromise' = SettleWith(donePromise, "resolved", urls)
        ELSE UNCHANGED <<streamWs, objectUrls, donePromise>>
     /\ UNCHANGED <<imageBlobs, onErrorLog>>
\* comfy.ts 129: raw.slice on a payload without that method
SliceError == [isError |-> TRUE, message |-> "raw.slice is not a function"]
\* comfy.ts 127-129: the slice is evaluated, and throws, at the capture node only
SliceThrows(frame) == Captures(currentNode, captureId) /\ ~frame.blob
\* a variant whose catch rejects the promise of the call
StreamBinaryAborts(frame) ==
  /\ imageBlobs' = IF Captures(currentNode, captureId) /\ frame.blob
                   THEN Append(imageBlobs, Slice(frame.bytes, headerBytes))
                   ELSE imageBlobs
  /\ onErrorLog' = onErrorLog
  /\ donePromise' = IF SliceThrows(frame)
                    THEN SettleWith(donePromise, "rejected", SliceError)
                    ELSE donePromise
  /\ UNCHANGED <<currentNode, streamWs, objectUrls>>
\* comfy.ts 124-133: a binary frame; what the try block throws goes to onError
StreamBinary(frame) ==
  /\ imageBlobs' = IF Captures(currentNode, captureId) /\ frame.blob
                   THEN Append(imageBlobs, Slice(frame.bytes, headerBytes))
                   ELSE imageBlobs
  /\ onErrorLog' = IF SliceThrows(frame) THEN Append(onErrorLog, SliceError)
                   ELSE onErrorLog
  /\ UNCHANGED <<currentNode, streamWs, objectUrls, donePromise>>
\* comfy.ts 99-134: onmessage
StreamMessage(frame) ==
  /\ streamWs = "open" /\ donePromise.state # "none" /\ ~StreamResumes
  /\ frameCount < MaxFrames
  /\ frameCount' = frameCount + 1
  /\ streamEvent' = [kind |-> "message", frame |-> frame]
  /\ IF frame.data = "text" THEN StreamText(frame) ELSE StreamBinary(frame)
  /\ UNCHANGED <<batchVars, graphVars, interruptVars, otherVars, clientId, wire, streamPc, captureId, streamRes, streamJob,
                 openPromise, streamResult, submitVars>>
\* a variant whose onclose does nothing
StreamCloseIgnored ==
  /\ streamWs \in {"open", "closing"} /\ donePromise.state # "none" /\ ~StreamResumes
  /\ streamWs' = "closed"
  /\ streamEvent' = [kind |-> "close"]
  /\ UNCHANGED <<batchVars, graphVars, interruptVars, otherVars, clientId, wire, streamPc, captureId, streamRes, streamJob, onErrorLog,
                 openPromise, donePromise, objectUrls, currentNode, imageBlobs,
                 frameCount, streamResult, submitVars>>
\* comfy.ts 136-140: onclose, after the remote closed the channel or after the
\* call closed it itself
StreamClose ==
  /\ streamWs \in {"open", "closing"} /\ donePromise.state # "none" /\ ~StreamResumes
  /\ streamWs' = "closed"
  /\ objectUrls' = objectUrls \o imageBlobs
  /\ donePromise' =
       SettleWith(donePromise, "resolved", ObjectUrls(objectUrls, imageBlobs))
  /\ streamEvent' = [kind |-> "close"]
  /\ UNCHANGED <<batchVars, graphVars, interruptVars, otherVars, clientId, wire, streamPc, captureId, streamRes, streamJob, onErrorLog,
                 openPromise, currentNode, imageBlobs, frameCount, streamResult,
                 submitVars>>
\* a variant whose onerror resolves with the images captured so far
StreamErrorResolves ==
  /\ streamWs = "open" /\ donePromise.state # "none" /\ ~StreamResumes
  /\ donePromise' =
       SettleWith(donePromise, "resolved", ObjectUrls(objectUrls, imageBlobs))
  /\ objectUrls' = objectUrls \o imageBlobs
  /\ streamEvent' = [kind |-> "error"]
  /\ UNCHANGED <<batchVars, graphVars, interruptVars, otherVars, clientId, wire, streamPc, captureId, streamRes, streamJob, onErrorLog,
                 streamWs, openPromise, currentNode, imageBlobs,
                 frameCount, streamResult, submitVars>>
\* comfy.ts 142-144: onerror once the handlers of donePromise are installed
StreamError ==
  /\ streamWs = "open" /\ donePromise.state # "none" /\ ~StreamResumes
  /\ donePromise' = SettleWith(donePromise, "rejected", WsErrorEvent)
  /\ streamEvent' = [kind |-> "error"]
  /\ UNCHANGED <<batchVars, graphVars, interruptVars, otherVars, clientId, wire, streamPc, captureId, streamRes, streamJob, onErrorLog,
                 streamWs, openPromise, currentNode, imageBlobs, objectUrls,
                 frameCount, streamResult, submitVars>>
\* comfy.ts 147-148: the await of donePromise resumes and the call returns
StreamReturn ==
  /\ streamPc = "listening" /\ donePromise.state = "resolved"
  /\ streamResult' = [state |-> "returned", promptId |-> streamJob,
                       imageUrls |-> donePromise.value]
  /\ streamPc' = "returned"
  /\ UNCHANGED <<batchVars, graphVars, interruptVars, otherVars, clientId, wire, captureId, streamRes, streamJob, onErrorLog, streamWs,
                 openPromise, donePromise, currentNode, imageBlobs, objectUrls,
                 frameCount, streamEvent, submitVars>>
\* comfy.ts 147: the await of donePromise throws
StreamThrow ==
  /\ streamPc = "listening" /\ donePromise.state = "rejected"
  /\ streamResult' = [state |-> "threw", err |-> donePromise.value]
  /\ streamPc' = "threw"
  /\ UNCHANGED <<batchVars, graphVars, interruptVars, otherVars, clientId, wire, captureId, streamRes, streamJob, onErrorLog, streamWs,
                 openPromise, donePromise, currentNode, imageBlobs, objectUrls,
                 frameCount, streamEvent, submitVars>>

StreamOptions == { <<>>, [captureNodeId |-> "9"], [captureNodeId |-> ""] }
NextStream ==
  \/ \E options \in StreamOptions : runPromptAndStreamImages(options)
  \/ \E reply \in PostReplies(nextJob) : StreamPostResolves(reply)
  \/ StreamPostThrows
  \/ StreamQueueOk
  \/ StreamBodyThrows
  \/ StreamQueueFail
  \/ StreamWsOpen
  \/ StreamWsErrorBeforeOpen
  \/ StreamListenStart
  \/ StreamOpenRejected
  \/ \E frame \in StreamFrames(streamJob) : StreamMessage(frame)
  \/ StreamClose
  \/ StreamError
  \/ StreamReturn
  \/ StreamThrow

SpecStream == Init /\ [][NextStream]_vars

\* ------------------------------------------------------------ submitPrompt
\* comfy.ts 152-154: the body is built with a fresh random id and POSTed
submitPrompt(uuid) ==
  /\ submitPc = "idle"
  /\ cryptoApi = "randomUUID"
  /\ wire' = Sent("submitPrompt", uuid)
  /\ submitPc' = "post"
  /\ UNCHANGED <<batchVars, graphVars, interruptVars, otherVars, clientId, streamVars,
                 submitRes, submitResult, cryptoApi>>
\* comfy.ts 153: what the expression crypto.randomUUID() throws in a runtime
\* without that function
NoRandomUUID(api) ==
  IF api = "none"
  THEN [isError |-> TRUE, message |-> "crypto is not defined"]
  ELSE [isError |-> TRUE, message |-> "crypto.randomUUID is not a function"]
\* comfy.ts 152-153: in such a runtime the call throws while it builds the body;
\* no request is sent
submitPromptThrows ==
  /\ submitPc = "idle"
  /\ cryptoApi # "randomUUID"
  /\ submitResult' = [state |-> "threw", err |-> NoRandomUUID(cryptoApi)]
  /\ submitPc' = "settled"
  /\ UNCHANGED <<batchVars, graphVars, interruptVars, otherVars, clientId, wire,
                 streamVars, submitRes, cryptoApi>>
\* comfy.ts 33-37: the remote answers the POST
submitPostResolves(reply) ==
  /\ submitPc = "post"
  /\ submitRes' = reply
  /\ nextJob' = IF Queues(reply) THEN nextJob + 1 ELSE nextJob
  /\ submitPc' = "body"
  /\ UNCHANGED <<batchState, graphVars, interruptVars, otherVars, clientId, wire,
                 streamVars, submitResult, cryptoApi>>
\* how the call ends
submitEnds(result) ==
  /\ submitResult' = result
  /\ submitPc' = "settled"
  /\ UNCHANGED <<batchVars, graphVars, interruptVars, otherVars, clientId, wire,
                 streamVars, submitRes, cryptoApi>>
\* comfy.ts 33, 154: the request itself fails (network error)
submitPostThrows ==
  /\ submitPc = "post"
  /\ submitEnds([state |-> "threw", err |-> FetchFailed])
\* comfy.ts 38-39, 154-155: the body is read: the call returns the prompt_id of
\* a JSON body, and throws on a non-success status or a body that is no JSON
submitSettles ==
  /\ submitPc = "body"
  /\ submitEnds(IF ~submitRes.ok
                THEN [state |-> "threw", err |-> PostFailed("/prompt", submitRes)]
                ELSE IF IsJson(submitRes)
                THEN [state |-> "returned", value |-> submitRes.prompt_id]
                ELSE [state |-> "threw", err |-> JsonSyntaxError])

\* The three ways the client submits and tracks a job, each with a remote that
\* queues the job and reports its end.
SentinelOf(job) ==
  [data |-> "text", json |-> "ok", type |-> "executing", prompt_id |-> job, node |-> Null]
DoneReply(job) ==
  [ok |-> TRUE, status |-> 200, data |-> [j \in {job} |-> [prompt |-> <<>>, outputs |-> <<>>]]]
NextClient ==
  \/ CallPrepare(1)
  \/ \E c \in Calls : prepareResolved(c, 1)
  \/ CallGenerateAll /\ puzzlePieces # <<>>
  \/ \E run \in Runs : IterationHead(run)
  \/ \E run \in Runs : BatchReturn(run)
  \/ \E run \in Runs : pc[run] = "queue" /\ \E reply \in TypicalPostReplies(nextJob) : PostResolves(run, reply)
  \/ \E run \in Runs : QueueOk(run)
  \/ \E run \in Runs : QueueFail(run)
  \/ \E run \in Runs : WsOpen(run)
  \/ \E run \in Runs : ListenStart(run)
  \/ \E run \in Runs : WsMessage(run, SentinelOf(promptId[run]))
  \/ \E run \in Runs : ListenDone(run)
  \/ \E run \in Runs : PollFetch(run)
  \/ \E run \in Runs : FetchResolves(run, DoneReply(promptId[run]), 0)
  \/ \E run \in Runs : FetchOutputs(run)
  \/ runPromptAndStreamImages(<<>>)
  \/ \E reply \in TypicalPostReplies(nextJob) : StreamPostResolves(reply)
  \/ StreamQueueOk
  \/ StreamQueueFail
  \/ StreamWsOpen
  \/ StreamListenStart
  \/ StreamMessage(SentinelOf(streamJob))
  \/ StreamClose
  \/ StreamReturn
  \/ \E uuid \in UUIDs : submitPrompt(uuid)
  \/ submitPromptThrows
  \/ \E reply \in TypicalPostReplies(nextJob) : submitPostResolves(reply)
  \/ submitPostThrows
  \/ submitSettles

\* in any runtime
InitClient ==
  /\ BatchInit /\ GraphIdle /\ AssetsIdle /\ RemoteIdle /\ JigsawIdle /\ SdxlIdle /\ Sam3Idle
  /\ ClientIdle /\ cryptoApi \in CryptoApis
SpecClient == InitClient /\ [][NextClient]_vars

\* One job tracked by waitUntilFinishedWS and one by runPromptAndStreamImages,
\* each on a channel that also delivers text frames that are no JSON.
Malformed(node) ==
  [data |-> "text", json |-> "bad", type |-> "", prompt_id |-> -1, node |-> node]
NodeEvent(job, node) ==
  [data |-> "text", json |-> "ok", type |-> "executing", prompt_id |-> job,
   node |-> node]
TextFrames(job) == {Malformed(NoNode), NodeEvent(job, "5"), SentinelOf(job)}
MixedFrames(job) ==
  {Malformed(Undefined), NodeEvent(job, DefaultCaptureId), NodeEvent(job, "9"),
   SentinelOf(job), [data |-> "binary", blob |-> TRUE, bytes |-> Bytes(headerBytes + 1, 1)]}
Queued(job) == {r \in PostReplies(job) : Queues(r)}
NextMalformed ==
  \/ CallPrepare(1)
  \/ \E c \in Calls : prepareResolved(c, 1)
  \/ CallGenerateAll /\ puzzlePieces # <<>>
  \/ \E run \in Runs : IterationHead(run)
  \/ \E run \in Runs : BatchReturn(run)
  \/ \E run \in Runs : pc[run] = "queue" /\ \E reply \in Queued(nextJob) : PostResolves(run, reply)
  \/ \E run \in Runs : QueueOk(run)
  \/ \E run \in Runs : WsOpen(run)
  \/ \E run \in Runs : ListenStart(run)
  \/ \E run \in Runs : \E frame \in TextFrames(promptId[run]) : WsMessage(run, frame)
  \/ \E run \in Runs : WsClose(run)
  \/ \E run \in Runs : ListenDone(run)
  \/ \E run \in Runs : PollFetch(run)
  \/ \E run \in Runs : FetchResolves(run, DoneReply(promptId[run]), 0)
  \/ \E run \in Runs : FetchOutputs(run)
  \/ runPromptAndStreamImages(<<>>)
  \/ \E reply \in Queued(nextJob) : StreamPostResolves(reply)
  \/ StreamQueueOk
  \/ StreamWsOpen
  \/ StreamListenStart
  \/ \E frame \in MixedFrames(streamJob) : StreamMessage(frame)
  \/ StreamClose
  \/ StreamReturn

SpecMalformed == Init /\ [][NextMalformed]_vars

\* ------------------------------------------------------------ the remote's jobs
\* The job runQwenImageEdit has submitted and not yet seen finished: the id in
\* the reply being read, then the id waitUntilFinishedWS tracks (0: none).
JobInFlight(run) ==
  IF pc[run] = "post" /\ Queues(res[run]) THEN res[run].prompt_id
  ELSE IF pc[run] \in {"wsOpen", "listening"} THEN promptId[run] ELSE 0
\* The remote runs the job in flight to completion and emits its sentinel to
\* the channels connected under the client id: none while the client has not
\* created its WebSocket (comfyui.ts 434-438: the POST is awaited first), maybe
\* none while the handshake is under way; events are not replayed.
RemoteCompletes(run) ==
  /\ JobInFlight(run) # 0
  /\ JobInFlight(run) \notin remote.finished
  /\ \E reaches \in BOOLEAN :
       /\ ws[run] = "none" => ~reaches
       /\ ws[run] = "open" => reaches
       /\ remote' = [finished |-> remote.finished \cup {JobInFlight(run)},
                     lost |-> IF reaches THEN remote.lost
                              ELSE remote.lost \cup {JobInFlight(run)}]
  /\ UNCHANGED <<batchVars, graphVars, clientVars, interruptVars, assetVars, moreVars>>
\* comfy.ts 58-68: the sentinel the remote emitted to the call's channel arrives
SentinelArrives(run) ==
  /\ promptId[run] \in remote.finished \ remote.lost
  /\ WsMessage(run, SentinelOf(promptId[run]))
\* The steps that cannot wait forever: continuations run, the handshake of a
\* channel that stays up completes, frames in flight arrive, the remote works.
TrackStep ==
  \/ \E run \in Runs : QueueOk(run)
  \/ \E run \in Runs : WsOpen(run)
  \/ \E run \in Runs : ListenStart(run)
  \/ \E run \in Runs : RemoteCompletes(run)
  \/ \E run \in Runs : SentinelArrives(run)
  \/ \E run \in Runs : ListenDone(run)
\* Batches whose jobs the remote queues and runs to completion, on channels
\* that open and stay open.
NextRemote ==
  \/ CallPrepare(MaxPieces)
  \/ \E c \in Calls, n \in 1..MaxPieces : prepareResolved(c, n)
  \/ CallGenerateAll /\ puzzlePieces # <<>>
  \/ \E run \in Runs : IterationHead(run)
  \/ \E run \in Runs : BatchReturn(run)
  \/ \E run \in Runs : pc[run] = "queue" /\ \E reply \in Queued(nextJob) : PostResolves(run, reply)
  \/ \E run \in Runs : \E node \in {"5", "7"} : WsMessage(run, NodeEvent(promptId[run], node))
  \/ \E run \in Runs : PollFetch(run)
  \/ \E run \in Runs : FetchResolves(run, DoneReply(promptId[run]), 0)
  \/ \E run \in Runs : FetchOutputs(run)
  \/ TrackStep
SpecRemote == Init /\ [][NextRemote]_vars /\ WF_vars(TrackStep)

\* Callers that do not wait: calls of prepareMultiPieceJigsaw and of
\* generateAllPuzzlePieces start while earlier ones are in flight, with a remote
\* that queues every job and reports its end.
NextOverlap ==
  \/ \E c \in Calls : prepareMultiPieceJigsaw(c, ImageA)
  \/ \E c \in Calls : Room(1) /\ prepareResolved(c, 1)
  \/ \E c \in Calls : prepareVisionFails(c)
  \/ \E run \in Runs : runs < MaxOverlap /\ generateAllPuzzlePieces(run)
  \/ \E run \in Runs : IterationHead(run)
  \/ \E run \in Runs : BatchReturn(run)
  \/ \E run \in Runs : pc[run] = "queue" /\ \E reply \in Queued(nextJob) : PostResolves(run, reply)
  \/ \E run \in Runs : PostThrows(run)
  \/ \E run \in Runs : QueueOk(run)
  \/ \E run \in Runs : WsOpen(run)
  \/ \E run \in Runs : ListenStart(run)
  \/ \E run \in Runs : WsMessage(run, SentinelOf(promptId[run]))
  \/ \E run \in Runs : ListenDone(run)
  \/ \E run \in Runs : PollFetch(run)
  \/ \E run \in Runs : FetchResolves(run, DoneReply(promptId[run]), 0)
  \/ \E run \in Runs : FetchOutputs(run)
SpecOverlap == Init /\ [][NextOverlap]_vars

\* ------------------------------------------------------------ buildAssetUrls alone
\* descriptors a node's images array may hold
\* a name with a capital letter outside A-Z and a suffix in capitals
MovUpper == [filename |-> <<"U+00C9", ".", "M", "O", "V">>, subfolder |-> "sub", type |-> "temp"]
Txt == [filename |-> <<"d", ".", "t", "x", "t">>]
Descriptors == {PngA, PngB, Mp4, MovUpper, Txt}
FileSeqs == UNION {[1..n -> Descriptors] : n \in 0..MaxFiles}
\* the node ids of an outputs record, in the order Object.entries lists them
NodeIds == <<"9", "60">>
OutputsRecords ==
  UNION { {[k \in 1..n |-> <<NodeIds[k], files[k]>>] : files \in [1..n -> FileSeqs]} :
            n \in 0..Len(NodeIds) }
\* comfy.ts 200-218: one call of buildAssetUrls
callBuildAssetUrls ==
  /\ assetsOut = NoResult
  /\ assetsOut' = [state |-> "returned", value |-> buildAssetUrls(assetsIn)]
  /\ UNCHANGED <<batchVars, graphVars, clientVars, interruptVars, assetsIn, remote, moreVars>>
InitAssets ==
  /\ BatchInit /\ GraphIdle /\ ClientInit /\ RemoteIdle /\ JigsawIdle /\ SdxlIdle /\ Sam3Idle
  /\ assetsIn \in OutputsRecords /\ assetsOut = NoResult
NextAssets == callBuildAssetUrls
SpecAssets == InitAssets /\ [][NextAssets]_vars

\* ------------------------------------------------------------ jigsaw store with its bridge service
VisionTexts == {"a beach", "a street"}
NextJigsaw ==
  \/ \E c \in Calls, image \in Images : Quiet /\ prepareMultiPieceJigsaw(c, image)
  \/ \E c \in Calls, response \in VisionTexts : prepareAnalyzed(c, response)
  \/ \E c \in Calls, response \in Replies : prepareIdentified(c, response)
  \/ \E c \in Calls : prepareVisionFails(c)
  \/ \E c \in Calls, image \in Images, withPeopleDetection \in BOOLEAN :
       Quiet /\ analyzeJigsaw(c, image, withPeopleDetection)
  \/ \E c \in Calls, response \in VisionTexts : analyzeResolved(c, response)
  \/ \E c \in Calls : service.ops[c].pc = "detect" /\ \E response \in PeopleReplies :
       analyzeDetected(c, response)
  \/ \E c \in Calls : analyzeRejected(c)
  \/ \E c \in Calls : Quiet /\ generateJigsawCutPattern(c)
  \/ \E c \in Calls, reply \in ChatReplies : cutPatternSettles(c, reply)
  \/ \E c \in Calls : Quiet /\ generateEditPrompt(c)
  \/ \E c \in Calls, reply \in ChatReplies : editPromptSettles(c, reply)
  \/ \E c \in Calls, customPrompt \in CustomPrompts : Quiet /\ executeEdit(c, customPrompt)
  \/ \E c \in Calls, reply \in ChatReplies : executeEditSettles(c, reply)
  \/ \E c \in Calls, image \in Images, withPeopleDetection \in BOOLEAN :
       Quiet /\ processJigsaw(c, image, withPeopleDetection)
  \/ \E c \in Calls : processResumes(c)
  \/ \E model \in ModelNames : setVisionModel(model)
  \/ \E visionModel \in ModelNames, editModel \in {"qwen2.5"} : setModels(visionModel, editModel)
  \/ setEditModel
  \/ reset
SpecJigsaw == Init /\ [][NextJigsaw]_vars

\* ============================================================ claims: batch
\* The specifications the claims are checked under have callers that start an
\* operation of the jigsaw store when the one before has ended (Quiet), so the
\* run of generateAllPuzzlePieces and the call of the bridge service they speak
\* of are those of slot 1. SpecOverlap has the callers that do not wait.
RunReturned ==
  lastCall.op = "generateAll" /\ lastCall.state = "returned" /\ lastCall.array
RunInProgress == pc[1] # "idle"
Settled(addr) == pieceObjs[addr].status \in {"complete", "error"}
ThrownText(err) == IF err.isError THEN err.message ELSE "Generation failed"
ThrownTexts ==
  {ThrownText(e) : e \in {WsErrorEvent, TimeoutError, FetchFailed, JsonSyntaxError}
                          \cup {PostFailed("/prompt", r) : r \in PostReplies(0) \ {q \in PostReplies(0) : q.ok}}}

\* C1: whatever jobs fail, generateAllPuzzlePieces never throws; the jobs of the
\* pieces after a failing one are still submitted (at any moment the submitted
\* jobs are exactly those of pieces 0..i, and of all pieces once it returned);
\* a failure is recorded in the error field of its own piece, not in the store's
\* error nor in the error field of a piece whose job returned.
C1_FailureNeverAbortsBatch ==
  /\ ~(lastCall.op = "generateAll" /\ lastCall.state = "threw")
  /\ RunInProgress =>
       /\ error = Null
       /\ Len(submitted[1]) = (IF pc[1] = "iter" THEN i[1] ELSE i[1] + 1)
       /\ \A k \in 1..Len(submitted[1]) : submitted[1][k] = k - 1
  /\ RunReturned => Len(submitted[1]) = Len(inputBatch[1]) /\ error = Null
  /\ (RunInProgress \/ RunReturned) =>
       \A k \in 1..Len(outcome[1]) :
         /\ outcome[1][k].kind = "threw" =>
              /\ pieceObjs[inputBatch[1][k]].status = "error"
              /\ pieceObjs[inputBatch[1][k]].error = ThrownText(outcome[1][k].err)
         /\ outcome[1][k].kind = "returned" =>
              pieceObjs[inputBatch[1][k]].error \notin ThrownTexts
\* a run that returned although the job of a piece other than the last threw
C1_Witness ==
  /\ RunReturned
  /\ \E k \in 1..Len(outcome[1]) :
       k < Len(outcome[1]) /\ outcome[1][k].kind = "threw" /\ outcome[1][k + 1].kind # "none"

\* C2: a piece whose job returned at least one image URL is 'complete' and holds
\* the first URL.
C2_SuccessfulPieceCompletes ==
  (RunInProgress \/ RunReturned) =>
    \A k \in 1..Len(outcome[1]) :
      (outcome[1][k].kind = "returned" /\ Len(outcome[1][k].images) > 0) =>
        /\ pieceObjs[inputBatch[1][k]].status = "complete"
        /\ pieceObjs[inputBatch[1][k]].imageUrl = <<outcome[1][k].images[1]>>

\* C3: when a run of a non-empty batch has returned, every piece is 'complete' or
\* 'error'.
C3_AllPiecesSettled ==
  RunReturned =>
    /\ \A k \in 1..Len(lastCall.value) : Settled(lastCall.value[k])
    /\ \A k \in 1..Len(puzzlePieces) : Settled(puzzlePieces[k])
    /\ Statuses(inputBatch[1]) \subseteq {"complete", "error"}
\* a returned run of two pieces or more, one job having thrown, one having returned
C3_Witness ==
  /\ RunReturned /\ Len(inputBatch[1]) >= 2
  /\ \E k, m \in 1..Len(outcome[1]) :
       outcome[1][k].kind = "threw" /\ outcome[1][m].kind = "returned"

\* C4: the returned array and puzzlePieces hold the pieces of the input batch: the
\* same objects, in the same order, none added or dropped; the list is not
\* replaced while the run is in progress.
C4_SamePiecesSameOrder ==
  /\ RunReturned => lastCall.value = inputBatch[1] /\ puzzlePieces = inputBatch[1]
  /\ RunInProgress =>
       /\ puzzlePieces = inputBatch[1]
       /\ results[1] = SubSeq(inputBatch[1], 1, Len(results[1]))
\* a returned run of two pieces or more in which the first job threw
C4_Witness ==
  /\ RunReturned /\ Len(lastCall.value) >= 2
  /\ outcome[1][1].kind = "threw"

\* C5: pieces are processed in array order, one at a time: at most one piece is
\* 'generating'; the jobs submitted so far are those of pieces 0..i in this
\* order; while the job of piece i is in flight every earlier piece is settled.
C5_OneAtATimeInOrder ==
  /\ Cardinality({k \in 1..Len(puzzlePieces) :
                    pieceObjs[puzzlePieces[k]].status = "generating"}) <= 1
  /\ RunInProgress =>
       /\ \A k \in 1..Len(submitted[1]) : submitted[1][k] = k - 1
       /\ \A k \in 1..i[1] : Settled(puzzlePieces[k]) /\ outcome[1][k].kind # "none"
       /\ pc[1] # "iter" =>
            /\ Len(submitted[1]) = i[1] + 1
            /\ pieceObjs[piece[1]].status = "generating"
            /\ outcome[1][i[1] + 1].kind = "none"
\* the job of the second piece is submitted after the first piece's job threw
C5_Witness ==
  /\ pc[1] = "queue" /\ i[1] = 1 /\ submitted[1] = <<0, 1>>
  /\ outcome[1][1].kind = "threw"

\* ============================================================ claims: tracker
\* C6: while the channel is open a frame resolves the tracker only if it is an
\* 'executing' event of the tracked job with node null; a frame of another job
\* id neither resolves it nor calls the progress callback.
C6_OnlyOwnSentinelResolves ==
  [][ (pc[1] = "listening" /\ msgCount'[1] = msgCount[1] + 1) =>
        LET f == lastEvent'[1].frame
        IN /\ (done[1] = "pending" /\ done'[1] # "pending") =>
                /\ done'[1] = "resolved"
                /\ f.data = "text" /\ f.json = "ok" /\ f.type = "executing"
                /\ f.prompt_id = promptId[1] /\ f.node = Null
           /\ f.prompt_id # promptId[1] =>
                /\ done'[1] = done[1] /\ ws'[1] = ws[1] /\ pc'[1] = pc[1]
                /\ onNodeLog'[1] = onNodeLog[1]
                /\ currentProgress' = currentProgress ]_vars
\* the sentinel of another job was delivered and the tracker is still pending
C6_Witness ==
  /\ pc[1] = "listening" /\ done[1] = "pending" /\ ws[1] = "open"
  /\ lastEvent[1].kind = "message"
  /\ lastEvent[1].frame.type = "executing"
  /\ lastEvent[1].frame.prompt_id # promptId[1]
  /\ lastEvent[1].frame.node = Null

\* C7: when the channel closes after it opened and before the sentinel of the
\* tracked job was seen, the tracker's promise is resolved (not rejected, not
\* left pending).
C7_CloseResolves ==
  (pc[1] = "listening" /\ ws[1] = "closed") => done[1] = "resolved"
\* the channel closed after frames that did not complete the job
C7_Witness ==
  /\ pc[1] = "listening" /\ ws[1] = "closed" /\ lastEvent[1].kind = "close"
  /\ msgCount[1] > 0

\* a frame arrives that is an 'executing' event of the tracked job and names a
\* node (its node is neither null nor absent / empty)
NodeEventArrives ==
  /\ pc[1] = "listening" /\ msgCount'[1] = msgCount[1] + 1
  /\ lastEvent'[1].frame.data = "text" /\ lastEvent'[1].frame.json = "ok"
  /\ lastEvent'[1].frame.type = "executing"
  /\ lastEvent'[1].frame.prompt_id = promptId[1]
  /\ lastEvent'[1].frame.node \notin {Null, NoNode}
\* an 'executing' event of the tracked job arrives whose node is not null
NonNullEventArrives ==
  /\ pc[1] = "listening" /\ msgCount'[1] = msgCount[1] + 1
  /\ lastEvent'[1].frame.data = "text" /\ lastEvent'[1].frame.json = "ok"
  /\ lastEvent'[1].frame.type = "executing"
  /\ lastEvent'[1].frame.prompt_id = promptId[1]
  /\ lastEvent'[1].frame.node # Null
\* an 'executing' event of the tracked job arrives whose node is the empty string
EmptyNodeArrives == NonNullEventArrives /\ lastEvent'[1].frame.node = NoNode
\* C27 as stated: every 'executing' event of the tracked job whose node is not
\* null calls the progress callback once with that node, in event order, and
\* leaves the tracker listening.
C27_ProgressPerNonNullEvent ==
  [][ NonNullEventArrives =>
        /\ onNodeLog'[1] = Append(onNodeLog[1], lastEvent'[1].frame.node)
        /\ done'[1] = done[1] /\ done[1] = "pending"
        /\ ws'[1] = ws[1] /\ pc'[1] = pc[1]
    ]_vars
\* C27 amended: every 'executing' event of the tracked job whose node is a
\* non-empty id calls the progress callback once with that node id, after the
\* calls made for the events before it, and leaves the tracker listening: the
\* promise stays pending and the channel open. An event of the tracked job
\* whose node is the empty string calls nothing and leaves the tracker
\* listening too. The callback is called for no other frame.
C27_ProgressPerNodeEvent ==
  [][ /\ NodeEventArrives =>
           /\ onNodeLog'[1] = Append(onNodeLog[1], lastEvent'[1].frame.node)
           /\ currentProgress' = ProgressText(lastEvent'[1].frame.node)
           /\ done'[1] = done[1] /\ done[1] = "pending"
           /\ ws'[1] = ws[1] /\ pc'[1] = pc[1]
      /\ EmptyNodeArrives =>
           /\ onNodeLog'[1] = onNodeLog[1]
           /\ currentProgress' = currentProgress
           /\ done'[1] = done[1] /\ done[1] = "pending"
           /\ ws'[1] = ws[1] /\ pc'[1] = pc[1]
      /\ (onNodeLog'[1] # onNodeLog[1] /\ onNodeLog'[1] # <<>>) => NodeEventArrives
    ]_vars
\* two node events of the tracked job were reported in their order of arrival
\* and the tracker is still listening
C27_Witness ==
  /\ pc[1] = "listening" /\ done[1] = "pending" /\ ws[1] = "open"
  /\ onNodeLog[1] = <<"7", "5">>
  /\ currentProgress = "Processing node: 5"

\* ============================================================ claims: polling
\* C12: waitForOutputs returns the outputs of the tracked job at the first reply
\* that has a success status and holds outputs under that job id; a reply with
\* a non-success status, without the job id or without its outputs never makes
\* it return: it sleeps pollMs and, before the timeout, polls again. (The steps
\* are those of the call; the replies are those whose body, if any, is JSON.)
C12_ReturnsAtFirstReadyPoll ==
  [][ pc'[1] # pc[1] =>
      /\ pc[1] = "fetch" /\ pc'[1] # "iter" =>
           pc'[1] = IF res'[1].ok THEN "json" ELSE "sleep"
      /\ pc[1] = "json" /\ IsRecord(res[1]) =>
           IF PollReturns(res[1], promptId[1])
           THEN /\ pc'[1] = "iter"
                /\ outcome'[1][i[1] + 1] =
                     [kind |-> "returned",
                      images |-> imageUrls(buildAssetUrls(res[1].data[promptId[1]].outputs))]
           ELSE pc'[1] = "sleep" /\ outcome'[1] = outcome[1]
      /\ pc[1] = "sleep" => pc'[1] = "poll" /\ elapsed'[1] = elapsed[1] + pollMs /\ outcome'[1] = outcome[1]
      /\ (pc[1] = "poll" /\ elapsed[1] <= timeoutMs) => pc'[1] = "fetch" /\ outcome'[1] = outcome[1]
    ]_vars
\* a later poll is answered with outputs for the tracked job, in a reply that
\* also holds another job
C12_Witness ==
  /\ pc[1] = "json" /\ elapsed[1] >= pollMs
  /\ PollReturns(res[1], promptId[1])
  /\ (promptId[1] - 1) \in DOMAIN res[1].data

TimedOut ==
  \E k \in 1..Len(outcome[1]) : outcome[1][k].kind = "threw" /\ outcome[1][k].err = TimeoutError
\* C13 as stated: with a history endpoint that never shows outputs, no poll
\* starts after more than timeoutMs and the call rejects within timeoutMs + pollMs
C13_RejectsWithinTimeoutPlusPoll ==
  /\ pc[1] = "fetch" => elapsed[1] <= timeoutMs
  /\ pc[1] = "poll" => elapsed[1] <= timeoutMs + pollMs
\* C13 amended: with a history endpoint that never shows outputs, waitForOutputs
\* eventually fails with the timeout error; no poll starts after more than
\* timeoutMs, and the call rejects at most one request and one sleep later
C13_TimesOutAfterLastPoll ==
  /\ [](pc[1] = "fetch" => elapsed[1] <= timeoutMs)
  /\ [](pc[1] = "poll" => elapsed[1] <= timeoutMs + MaxLatency * pollMs + pollMs)
  /\ (pc[1] = "poll" ~> TimedOut)
\* the timeout test is reached later than timeoutMs + pollMs after the call began
C13_Witness == pc[1] = "poll" /\ elapsed[1] > timeoutMs + pollMs

\* C14: a poll attempt that fails, by the request itself failing or by a
\* non-success status, does not make waitForOutputs fail: the loop goes on.
C14_FailedPollKeepsPolling ==
  [][ pc[1] = "fetch" /\ pc'[1] # "fetch" =>
        pc'[1] \in {"json", "sleep"} /\ outcome'[1] = outcome[1] ]_vars

\* C15: queuePromptWS throws, and yields no job id, whenever the remote answers
\* the submission with a non-success status, and the message of the error holds
\* the remote's status code and response body as received; on a success status it
\* returns the job id of the remote's reply at once, before any event of the job
\* is received.
C15_SubmissionErrorVerbatim ==
  [][ pc[1] = "post" /\ pc'[1] # "post" =>
        IF res[1].ok
        THEN IsJson(res[1]) =>
             /\ pc'[1] = "wsOpen" /\ promptId'[1] = res[1].prompt_id
             /\ msgCount'[1] = 0 /\ outcome'[1] = outcome[1]
        ELSE /\ promptId'[1] = 0
             /\ outcome'[1][i[1] + 1] =
                  [kind |-> "threw",
                   err |-> [isError |-> TRUE,
                            message |-> "POST /prompt failed: " \o ToString(res[1].status)
                                          \o " " \o res[1].text]]
    ]_vars
\* a submission was answered 400 with a body, and the piece holds both
C15_Witness ==
  /\ Len(outcome[1]) >= 1 /\ outcome[1][1].kind = "threw"
  /\ outcome[1][1].err.message = "POST /prompt failed: 400 invalid prompt"
  /\ pieceObjs[inputBatch[1][1]].error = "POST /prompt failed: 400 invalid prompt"

\* C17: runQwenImageEdit returns, and stores image URLs, only when the history
\* endpoint has answered with outputs for the job id, and the URLs are those of
\* that record; the tracker resolving (by the sentinel or by the channel closing)
\* never does it.
C17_HistoryCorroborates ==
  [][ /\ Len(generatedImages') > Len(generatedImages) =>
           pc[1] = "json" /\ PollReturns(res[1], promptId[1])
      /\ Len(outcome'[1]) = Len(outcome[1]) =>
           \A k \in 1..Len(outcome[1]) :
             (outcome[1][k].kind = "none" /\ outcome'[1][k].kind = "returned") =>
               /\ pc[1] = "json" /\ PollReturns(res[1], promptId[1])
               /\ outcome'[1][k].images =
                    imageUrls(buildAssetUrls(res[1].data[promptId[1]].outputs))
      /\ Len(pieceObjs') = Len(pieceObjs) =>
           \A a \in 1..Len(pieceObjs) :
             (pieceObjs[a].status # "complete" /\ pieceObjs'[a].status = "complete") =>
               pc[1] = "json" /\ PollReturns(res[1], promptId[1])
    ]_vars
\* the channel closed without the sentinel, and the history endpoint answers
\* that the job has no outputs: the job has not returned
C17_Witness ==
  /\ pc[1] = "json" /\ lastEvent[1].kind = "close"
  /\ ~PollReturns(res[1], promptId[1])
  /\ outcome[1][i[1] + 1].kind = "none"

\* ============================================================ claims: service client
ClientOps == {"queuePromptWS", "waitUntilFinishedWS", "runPromptAndStreamImages"}
\* C16 as stated: every submission (queuePromptWS, submitPrompt) and every
\* event-channel subscription carries the session's client id.
C16_SameIdEverywhere == wire.op # "none" => wire.client_id = clientId
\* C16 amended: the client id never changes; every submission made through
\* queuePromptWS and every subscription (waitUntilFinishedWS,
\* runPromptAndStreamImages) carries it; submitPrompt is the exception.
C16_SameIdExceptSubmit ==
  /\ [](wire.op \in ClientOps => wire.client_id = clientId)
  /\ [](wire.op \in ClientOps \cup {"none", "submitPrompt"})
  /\ [][clientId' = clientId]_vars
\* the batch subscribed to its job's events after the two other calls were made
C16_Witness ==
  /\ wire.op = "waitUntilFinishedWS"
  /\ submitPc # "idle" /\ streamJob # 0 /\ promptId[1] # 0

BinaryArrives == frameCount' = frameCount + 1 /\ streamEvent'.frame.data = "binary"
\* C18: whatever the interleaving of 'executing' events and binary frames, a
\* binary frame adds a blob only if the current node, at the moment the frame
\* arrives, is captureId; a frame that arrives while another node is current
\* leaves the blobs as they are.
C18_CaptureOnlyAtCaptureNode ==
  [][ BinaryArrives =>
        /\ imageBlobs' # imageBlobs => currentNode = captureId
        /\ currentNode # captureId => imageBlobs' = imageBlobs
        /\ currentNode' = currentNode
    ]_vars
\* a binary frame arrived while a node other than the capture node was executing
C18_Witness ==
  /\ captureId = DefaultCaptureId /\ currentNode = "9"
  /\ streamEvent.kind = "message" /\ streamEvent.frame.data = "binary"
  /\ imageBlobs = <<>>

\* the URLs urls name the blobs blobs, one each, in order, in the store
NamesInOrder(urls, blobs, store) ==
  /\ Len(urls) = Len(blobs)
  /\ \A k \in 1..Len(urls) :
       /\ urls[k] \in 1..Len(store) /\ store[urls[k]] = blobs[k]
       /\ \A m \in 1..Len(urls) : urls[m] = urls[k] => m = k
\* C19: while the call waits, the 'executing' event with node null of the
\* tracked job resolves it with one object URL for every blob captured so far,
\* in capture order; the channel closing first resolves it in the same way; once
\* resolved, the call's next step is to return those URLs with the job id.
C19_ResolvesOnSentinelOrClose ==
  [][ /\ ( /\ donePromise.state = "pending"
            /\ frameCount' = frameCount + 1
            /\ streamEvent'.frame = SentinelOf(streamJob) ) =>
           /\ donePromise'.state = "resolved"
           /\ NamesInOrder(donePromise'.value, imageBlobs, objectUrls')
      /\ ( /\ donePromise.state = "pending"
            /\ streamWs = "open" /\ streamWs' = "closed" ) =>
           /\ donePromise'.state = "resolved"
           /\ NamesInOrder(donePromise'.value, imageBlobs, objectUrls')
      /\ (streamPc = "listening" /\ donePromise.state = "resolved") =>
           /\ streamPc' = "returned"
           /\ streamResult' = [state |-> "returned", promptId |-> streamJob,
                                imageUrls |-> donePromise.value]
    ]_vars
\* the channel closed without the sentinel and the call returned the URLs of
\* the two blobs captured before
C19_Witness ==
  /\ streamResult.state = "returned" /\ Len(streamResult.imageUrls) = 2
  /\ streamWs = "closed" /\ Len(objectUrls) = 2
  /\ imageBlobs[1] # imageBlobs[2]

\* the bytes of a frame after its first headerBytes bytes
AfterHeader(bytes) ==
  [k \in 1..(IF Len(bytes) > headerBytes THEN Len(bytes) - headerBytes ELSE 0) |->
     bytes[k + headerBytes]]
\* C20: the blobs change only when a binary frame arrives, and then by one blob
\* added at the end: the frame without its first 8 bytes (empty for a frame of 8
\* bytes or fewer).
C20_BlobIsFrameMinusHeader ==
  [][ imageBlobs' # imageBlobs =>
        /\ BinaryArrives
        /\ imageBlobs' = Append(imageBlobs, AfterHeader(streamEvent'.frame.bytes))
    ]_vars
\* a frame of 8 bytes gave an empty blob, a longer frame after it a blob of its
\* last bytes
C20_Witness ==
  /\ Len(imageBlobs) = 2
  /\ imageBlobs[1] = <<>> /\ imageBlobs[2] = <<headerBytes + 1, headerBytes + 2>>
  /\ streamEvent.kind = "message" /\ streamEvent.frame.data = "binary"

\* a binary frame arrives whose processing throws
FrameThrows ==
  /\ BinaryArrives
  /\ ~streamEvent'.frame.blob
  /\ currentNode = captureId
\* C21: an error raised while one binary frame is processed goes to onError and
\* nothing else happens: the blobs captured before are kept, the promise of the
\* call is neither resolved nor rejected, the channel stays open and the call
\* keeps waiting; after such an error a binary frame is still captured and the
\* sentinel of the job still resolves the call.
C21_FrameErrorGoesToOnError ==
  [][ /\ FrameThrows =>
           /\ onErrorLog' = Append(onErrorLog, SliceError)
           /\ imageBlobs' = imageBlobs
           /\ donePromise' = donePromise
           /\ streamWs' = streamWs /\ streamPc' = streamPc
           /\ currentNode' = currentNode
      /\ onErrorLog' # onErrorLog => FrameThrows
      /\ ( /\ onErrorLog # <<>> /\ BinaryArrives /\ streamEvent'.frame.blob
            /\ currentNode = captureId ) =>
           imageBlobs' = Append(imageBlobs, AfterHeader(streamEvent'.frame.bytes))
      /\ ( /\ onErrorLog # <<>> /\ donePromise.state = "pending"
            /\ frameCount' = frameCount + 1
            /\ streamEvent'.frame = SentinelOf(streamJob) ) =>
           donePromise'.state = "resolved"
    ]_vars
\* a frame was captured, the next one threw, and the one after it was captured
\* while the call was still waiting
C21_Witness ==
  /\ Len(onErrorLog) = 1 /\ Len(imageBlobs) = 2
  /\ streamEvent.kind = "message" /\ streamEvent.frame.data = "binary"
  /\ streamEvent.frame.blob
  /\ streamPc = "listening" /\ donePromise.state = "pending"

\* C22: whenever runPromptAndStreamImages has sent the submission of its job, the
\* call's event channel has been created (its open has been started).
C22_ChannelStartedBeforeSubmit ==
  streamPc = "queue" => streamWs # "none"

\* C23: the jobs submitted under the client id are tracked over one shared event
\* channel: while the channel of one tracked job is alive, tracking another job
\* has opened no second channel.
C23_SingleSharedChannel ==
  ~(Live(ws[1]) /\ Live(streamWs))

\* generateAllPuzzlePieces is called while the piece list is empty
EmptyCall ==
  /\ Len(puzzlePieces) = 0
  /\ lastCall'.op = "generateAll" /\ lastCall' # lastCall
\* C24: a call of generateAllPuzzlePieces with an empty piece list sets the
\* error message and returns at once without a value (no piece array); it
\* submits no job and leaves isGeneratingPieces and the progress counter as
\* they were; no run is ever in progress on an empty list.
C24_EmptyListFailsFast ==
  /\ [][ EmptyCall =>
           /\ error' = "No puzzle pieces to generate. Run prepareMultiPieceJigsaw first."
           /\ lastCall' = Call("generateAll", "returned", FALSE, <<>>)
           /\ UNCHANGED <<isGeneratingPieces, generationProgress, pc, submitted,
                          nextJob, wire, puzzlePieces, pieceObjs, runs>>
       ]_vars
  /\ [](Len(puzzlePieces) = 0 => pc[1] = "idle" /\ ~isGeneratingPieces)
\* the call was made on an empty list and returned with the message
C24_Witness ==
  /\ lastCall = Call("generateAll", "returned", FALSE, <<>>)
  /\ error = "No puzzle pieces to generate. Run prepareMultiPieceJigsaw first."
  /\ puzzlePieces = <<>> /\ ~isGeneratingPieces /\ ~isAnalyzing
  /\ generationProgress = [current |-> 0, total |-> 0]
  /\ nextJob = 1 /\ wire.op = "none"

\* the job of the current piece finishes without throwing and without images
ReturnsNoImage ==
  /\ pc[1] # "idle" /\ i[1] < Len(puzzlePieces)
  /\ outcome[1][i[1] + 1].kind = "none"
  /\ outcome'[1][i[1] + 1] = [kind |-> "returned", images |-> <<>>]
\* C25: when the job of a piece returns without throwing and yields no image
\* URL, the piece ends with status 'error' and error 'No image generated', is
\* pushed to the results, and the run goes on to the next loop test with the
\* next index, still generating.
C25_NoImageIsError ==
  [][ ReturnsNoImage =>
        /\ pieceObjs'[piece[1]].status = "error"
        /\ pieceObjs'[piece[1]].error = "No image generated"
        /\ results'[1] = Append(results[1], piece[1])
        /\ i'[1] = i[1] + 1 /\ pc'[1] = "iter"
        /\ isGeneratingPieces' /\ lastCall'.state = "pending"
        /\ error' = error
    ]_vars
\* the first piece's job yielded no image and the second piece's job is queued
C25_Witness ==
  /\ Len(puzzlePieces) = 2 /\ i[1] = 1 /\ pc[1] = "queue"
  /\ outcome[1][1] = [kind |-> "returned", images |-> <<>>]
  /\ pieceObjs[puzzlePieces[1]].status = "error"
  /\ pieceObjs[puzzlePieces[1]].error = "No image generated"
  /\ pieceObjs[puzzlePieces[2]].status = "generating"

\* a non-empty string
NonEmpty(v) == v \notin {Undefined, Null, ""}
\* C26: in every state, a piece in status 'error' carries a non-empty error
\* string; for a piece whose job has ended in the run it is the message of the
\* Error the job threw, 'Generation failed' when what was thrown is no Error,
\* and 'No image generated' when the job returned.
C26_ErrorPieceHasMessage ==
  /\ \A a \in DOMAIN pieceObjs :
       pieceObjs[a].status = "error" => NonEmpty(pieceObjs[a].error)
  /\ \A k \in 1..Len(outcome[1]) :
       LET obj == pieceObjs[inputBatch[1][k]]
       IN (obj.status = "error" /\ outcome[1][k].kind # "none") =>
            /\ (outcome[1][k].kind = "threw" /\ outcome[1][k].err.isError) =>
                 obj.error = outcome[1][k].err.message
            /\ (outcome[1][k].kind = "threw" /\ ~outcome[1][k].err.isError) =>
                 obj.error = "Generation failed"
            /\ outcome[1][k].kind = "returned" => obj.error = "No image generated"
\* the run returned with its obj in error after the WebSocket failed to open:
\* what was thrown is an Event, not an Error
C26_Witness ==
  /\ RunReturned /\ Len(outcome[1]) = 1
  /\ outcome[1][1].kind = "threw" /\ ~outcome[1][1].err.isError
  /\ pieceObjs[inputBatch[1][1]].status = "error"
  /\ pieceObjs[inputBatch[1][1]].error = "Generation failed"

\* a text frame that is no JSON arrives at waitUntilFinishedWS
BadFrameAtTracker ==
  /\ msgCount'[1] = msgCount[1] + 1
  /\ lastEvent'[1].frame.data = "text" /\ lastEvent'[1].frame.json = "bad"
\* a text frame that is no JSON arrives at runPromptAndStreamImages
BadFrameAtStream ==
  /\ frameCount' = frameCount + 1
  /\ streamEvent'.frame.data = "text" /\ streamEvent'.frame.json = "bad"
\* the frame delivered last was no JSON
AfterBadFrame(event) ==
  event.kind = "message" /\ event.frame.data = "text" /\ event.frame.json = "bad"
\* C28: a text frame that cannot be parsed changes nothing but the count of
\* frames seen: in waitUntilFinishedWS the promise, the socket and the progress
\* callback's calls, in runPromptAndStreamImages the promise, the socket, the
\* current node, the blobs and the object URLs stay as they were. The frame
\* that follows it is handled as usual: the sentinel resolves, a node event is
\* reported or becomes the current node, a binary frame at the capture node is
\* captured.
C28_MalformedFrameIgnored ==
  [][ /\ BadFrameAtTracker =>
           /\ done'[1] = done[1] /\ ws'[1] = ws[1] /\ pc'[1] = pc[1] /\ opened'[1] = opened[1]
           /\ onNodeLog'[1] = onNodeLog[1] /\ currentProgress' = currentProgress
      /\ BadFrameAtStream =>
           /\ donePromise' = donePromise /\ streamWs' = streamWs
           /\ streamPc' = streamPc
           /\ currentNode' = currentNode /\ imageBlobs' = imageBlobs
           /\ objectUrls' = objectUrls /\ onErrorLog' = onErrorLog
      /\ (AfterBadFrame(lastEvent[1]) /\ msgCount'[1] = msgCount[1] + 1) =>
           /\ lastEvent'[1].frame = SentinelOf(promptId[1]) => done'[1] = "resolved"
           /\ lastEvent'[1].frame = NodeEvent(promptId[1], "5") =>
                onNodeLog'[1] = Append(onNodeLog[1], "5")
      /\ (AfterBadFrame(streamEvent) /\ frameCount' = frameCount + 1) =>
           /\ streamEvent'.frame = SentinelOf(streamJob) =>
                donePromise'.state = "resolved"
           /\ streamEvent'.frame = NodeEvent(streamJob, DefaultCaptureId) =>
                currentNode' = DefaultCaptureId
           /\ (streamEvent'.frame.data = "binary" /\ currentNode = captureId) =>
                Len(imageBlobs') = Len(imageBlobs) + 1
    ]_vars
\* waitUntilFinishedWS resolved at the sentinel that followed a malformed frame,
\* and runPromptAndStreamImages, a blob captured, has just seen a malformed
\* frame and still waits at the capture node
C28_Witness ==
  /\ pc[1] = "listening" /\ done[1] = "resolved" /\ msgCount[1] = 2 /\ onNodeLog[1] = <<>>
  /\ lastEvent[1].kind = "message" /\ lastEvent[1].frame = SentinelOf(promptId[1])
  /\ AfterBadFrame(streamEvent)
  /\ streamPc = "listening" /\ donePromise.state = "pending"
  /\ Len(imageBlobs) = 1 /\ currentNode = DefaultCaptureId

\* C29: while a run is in progress generationProgress.total is the number of
\* pieces; current is i + 1 from the step that submits the job of piece i (and
\* i between two pieces); 0 <= current <= total holds in every state; within a
\* run current never decreases.
C29_ProgressCounts ==
  /\ [](/\ 0 <= generationProgress.current
         /\ generationProgress.current <= generationProgress.total)
  /\ [](RunInProgress =>
          /\ generationProgress.total = Len(puzzlePieces)
          /\ generationProgress.current = (IF pc[1] = "iter" THEN i[1] ELSE i[1] + 1))
  /\ [][ /\ (submitted'[1] # submitted[1] /\ submitted'[1] # <<>>) =>
               /\ submitted'[1] = Append(submitted[1], i[1])
               /\ generationProgress'.current = i[1] + 1
         /\ RunInProgress =>
               /\ generationProgress'.current >= generationProgress.current
               /\ generationProgress'.total = generationProgress.total
       ]_vars
\* the job of the second of two pieces is submitted: current = total = 2
C29_Witness ==
  /\ pc[1] = "queue" /\ i[1] = 1 /\ submitted[1] = <<0, 1>>
  /\ generationProgress = [current |-> 2, total |-> 2]

\* a step of a call of interrupt
InterruptStep == interruptPc' # interruptPc \/ updates'["interrupt"] # updates["interrupt"]
\* C30: no step of interrupt resolves, rejects or cancels the local call in
\* progress: the position of the run, the job id, the socket, the promises of
\* waitUntilFinishedWS, the poll clock and the response being read stay as
\* they were, and so do the pieces (their status included), the results and
\* what the run has submitted and recorded.
C30_InterruptLeavesLocalCall ==
  [][ InterruptStep =>
        /\ UNCHANGED <<pc, i, promptId, ws, opened, done, elapsed, res>>
        /\ UNCHANGED <<pieceObjs, puzzlePieces, results, outcome, submitted, lastCall>>
        /\ UNCHANGED <<isGeneratingPieces, generationProgress, error, nextJob>>
        /\ UNCHANGED <<lastEvent, msgCount, onNodeLog>>
    ]_vars
\* interrupt was answered while the call waits for the sentinel: the call is
\* still listening on its open socket and its piece is still 'generating'
C30_Witness ==
  /\ interruptPc = "queue" /\ ~isProcessing
  /\ pc[1] = "listening" /\ done[1] = "pending" /\ ws[1] = "open"
  /\ pieceObjs[puzzlePieces[1]].status = "generating"

\* the descriptors of an outputs record, node after node
RECURSIVE Flatten(_)
Flatten(entries) ==
  IF entries = <<>> THEN <<>>
  ELSE [k \in 1..Len(Head(entries)[2]) |->
          [node |-> Head(entries)[1], f |-> Head(entries)[2][k]]]
         \o Flatten(Tail(entries))
\* the file extensions of images
isImage(filename) ==
  \E ext \in { <<".", "p", "n", "g">>, <<".", "j", "p", "g">>,
                <<".", "j", "p", "e", "g">>, <<".", "w", "e", "b", "p">>,
                <<".", "g", "i", "f">> } :
    endsWith(toLowerCase(filename), ext)
\* the class of a file by its extension
ClassOf(filename) ==
  IF isVideo(filename) THEN "video" ELSE IF isImage(filename) THEN "image" ELSE "other"
\* C31: buildAssetUrls returns one asset per descriptor of the outputs record,
\* in node and descriptor order, with the node and the filename of the
\* descriptor, the class of the file by its extension (image, video or other)
\* and, in the URL, the subfolder ('' by default) and the storage class
\* ('output' by default).
C31_OneAssetPerDescriptor ==
  assetsOut.state = "returned" =>
    LET d == Flatten(assetsIn)
        a == assetsOut.value
    IN /\ Len(a) = Len(d)
       /\ \A k \in 1..Len(a) :
            /\ a[k].node = d[k].node /\ a[k].filename = d[k].f.filename
            /\ a[k].type = ClassOf(d[k].f.filename)
            /\ a[k].url.filename = d[k].f.filename
            /\ a[k].url.subfolder = (IF "subfolder" \in DOMAIN d[k].f
                                      THEN d[k].f.subfolder ELSE "")
            /\ a[k].url.type = (IF "type" \in DOMAIN d[k].f
                                 THEN d[k].f.type ELSE "output")

\* C32: whenever the remote has run the job in flight to completion, on a
\* channel that stays open, waitUntilFinishedWS eventually resolves and the
\* call goes on, also when the job completed before the channel had opened.
C32_CompletedJobResolves ==
  \A job \in 1..(MaxPieces * MaxRuns) :
    (JobInFlight(1) = job /\ job \in remote.finished) ~> (JobInFlight(1) # job)

\* an 'executing' event that names a node arrives at runPromptAndStreamImages
ExecutingArrives ==
  /\ frameCount' = frameCount + 1
  /\ streamEvent'.frame.data = "text" /\ streamEvent'.frame.json = "ok"
  /\ streamEvent'.frame.type = "executing"
  /\ streamEvent'.frame.node \notin {Null, Undefined}
\* C33: every 'executing' event received on the channel that names a node makes
\* that node the current node.
C33_UpdatedOnEveryExecuting ==
  [][ ExecutingArrives => currentNode' = streamEvent'.frame.node ]_vars
\* C33 amended: an 'executing' event of the tracked job that names a node makes
\* that node the current node; every other frame ('executing' events of other
\* jobs and events without a node included) leaves the current node as it was.
C33_UpdatedOnOwnExecuting ==
  [][ frameCount' = frameCount + 1 =>
        IF ExecutingArrives /\ streamEvent'.frame.prompt_id = streamJob
        THEN currentNode' = streamEvent'.frame.node
        ELSE currentNode' = currentNode
    ]_vars
\* after the tracked job reached the capture node, an 'executing' event of
\* another job named node 9: the current node is still the capture node
C33_Witness ==
  /\ streamEvent.kind = "message" /\ streamEvent.frame.data = "text"
  /\ streamEvent.frame.type = "executing"
  /\ streamEvent.frame.prompt_id # streamJob /\ streamEvent.frame.node = "9"
  /\ currentNode = DefaultCaptureId /\ captureId = DefaultCaptureId

\* ------------------------------------------------------------ claims: jigsaw store
PrepareEnded == service.ops[1].op = "prepare" /\ service.ops[1].pc = "idle" /\ lastCall.op = "prepare"
AllCallsSucceeded == \A k \in 1..Len(service.ops[1].calls) : service.ops[1].calls[k] = "ok"
\* C34: when every call of the vision/language service made by a finished
\* prepareMultiPieceJigsaw call has succeeded, the call has returned without error
\* and puzzlePieces holds one pending piece per identified subject, in subject
\* order, whose id and subjectId are the subject's id.
C34_PrepareYieldsPieces ==
  (PrepareEnded /\ AllCallsSucceeded) =>
    /\ lastCall.state = "returned" /\ error = Null
    /\ Len(puzzlePieces) = Len(service.ops[1].subjects)
    /\ \A k \in 1..Len(puzzlePieces) :
         /\ pieceObjs[puzzlePieces[k]].id = service.ops[1].subjects[k].id
         /\ pieceObjs[puzzlePieces[k]].subjectId = service.ops[1].subjects[k].id
         /\ pieceObjs[puzzlePieces[k]].status = "pending"

\* C35: a reset() step leaves every piece of state of the jigsaw store at its
\* initial value: the refs it writes, and also the puzzle piece list, the
\* generation progress counter and the busy flags.
C35_ResetClearsAll ==
  [][ reset =>
        /\ jigsaw' = JigsawInitial /\ error' = Null
        /\ puzzlePieces' = <<>>
        /\ generationProgress' = [current |-> 0, total |-> 0]
        /\ ~isAnalyzing' /\ ~isGeneratingPrompt' /\ ~isGeneratingPieces'
    ]_vars

\* ------------------------------------------------------------ claims: SDXL helper
\* C36: a runSdxlWithPrompts call that has returned holds one result per input
\* prompt, in input order, each with that prompt and the job id its own
\* submission was answered with; with waitForOutputs = true every run has been
\* awaited, in order, and a run whose wait failed has the empty asset list; with
\* waitForOutputs = false no run has been awaited and no result has assets.
C36_SdxlResults ==
  sdxl.pc = "returned" =>
    /\ Len(sdxl.value) = Len(sdxl.prompts)
    /\ \A k \in 1..Len(sdxl.value) :
         /\ sdxl.value[k].prompt = sdxl.prompts[k]
         /\ sdxl.value[k].promptId = sdxl.issued[k]
         /\ \A m \in 1..Len(sdxl.value) :
              m # k => sdxl.value[m].promptId # sdxl.value[k].promptId
    /\ IF sdxl.wait
       THEN /\ sdxl.awaited = [k \in 1..Len(sdxl.prompts) |-> k]
            /\ \A k \in 1..Len(sdxl.value) : "assets" \in DOMAIN sdxl.value[k]
            /\ \A k \in sdxl.failed : sdxl.value[k].assets = <<>>
       ELSE /\ sdxl.awaited = <<>>
            /\ \A k \in 1..Len(sdxl.value) : "assets" \notin DOMAIN sdxl.value[k]
C36_Witness ==
  /\ sdxl.pc = "returned" /\ sdxl.wait
  /\ Len(sdxl.prompts) = 2 /\ sdxl.prompts[1] # sdxl.prompts[2]
  /\ sdxl.failed = {1}
  /\ sdxl.value[2].assets # <<>>

\* ------------------------------------------------------------ claims: stream settlement
\* the original wording of C37: once the channel has opened, the call's future is
\* never rejected and the call never throws.
C37_NeverRejectsAfterOpen ==
  openPromise.state = "resolved" =>
    donePromise.state # "rejected" /\ streamResult.state # "threw"
\* C37: once its event channel has opened, the future of runPromptAndStreamImages
\* is resolved by the sentinel or by a close event, with one object URL per image
\* captured so far, and it is rejected by an error event of the channel, and by
\* nothing else, with that event.
C37_RejectsOnlyOnError ==
  [][ donePromise.state = "pending" =>
        /\ StreamError =>
             donePromise'.state = "rejected" /\ donePromise'.value = WsErrorEvent
        /\ donePromise'.state = "rejected" => StreamError
        /\ donePromise'.state = "resolved" =>
             /\ streamEvent'.kind \in {"close", "message"}
             /\ Len(donePromise'.value) = Len(imageBlobs')
             /\ \A k \in 1..Len(imageBlobs') :
                  objectUrls'[donePromise'.value[k]] = imageBlobs'[k]
    ]_vars
C37_Witness ==
  /\ streamResult.state = "threw" /\ openPromise.state = "resolved"
  /\ streamResult.err = WsErrorEvent
  /\ imageBlobs # <<>>

\* C38: in one call of runPromptAndStreamImages at most one object URL is created
\* per captured blob, so the blob URL store never holds more URLs than there are
\* captured blobs.
C38_UrlOncePerBlob == Len(objectUrls) <= Len(imageBlobs)

\* ------------------------------------------------------------ claims: busy flags
\* a runQwenImageEdit call has started and has neither returned nor thrown
EditInFlight == pc[1] \notin {"idle", "iter"}
\* C39: isProcessing is true in every state in which a runQwenImageEdit call is in
\* flight, and isGeneratingPieces in every state in which a run of
\* generateAllPuzzlePieces is unfinished, calls of interrupt included.
C39_BusyWhileInFlight ==
  /\ EditInFlight => isProcessing
  /\ RunInProgress => isGeneratingPieces

\* ============================================================ graph requests
\* the requests a caller may make; an optional parameter that is omitted (or
\* passed as undefined) is a key the options object does not hold
Optional(key, values) == {<<>>} \cup {WithKey(<<>>, key, v) : v \in values}
Merge(f, g) == [k \in DOMAIN f \cup DOMAIN g |-> IF k \in DOMAIN f THEN f[k] ELSE g[k]]
QwenOptions ==
  { Merge([imageFilename |-> "cat.png", positivePrompt |-> "a cat"],
          Merge(neg, Merge(seed, steps))) :
      neg \in Optional("negativePrompt", {"", "blurry"}),
      seed \in Optional("seed", {0, 7}),
      steps \in Optional("steps", {4}) }
OptionsOf(kind) ==
  CASE kind = "qwen" -> QwenOptions
    [] kind = "sam3" -> {[imageFilename |-> "cat.png", prompt |-> "person"]}
    [] kind = "sdxl" -> {[p |-> "a cat"], [p |-> ""]}

GraphInit ==
  \E kind \in {"qwen", "sam3", "sdxl"} :
    \E sh \in TemplateShapes(kind) :
      LET g == LoadTemplate(kind, sh)
      IN /\ heap = g.heap
         /\ template = g.root
         /\ workflow = <<>>
         /\ template0 = Value(g)
         /\ request = [kind |-> kind, options |-> <<>>]
         /\ requests = 0

\* comfyui.ts 393-430 (runQwenImageEdit), comfyui.ts 233-245 (runSAM3Segmentation),
\* comfy.ts 242-246 (one iteration of runSdxlWithPrompts): the synchronous block
\* that clones the template and writes the request's parameters into the clone
PrepareGraph(options) ==
  /\ requests < MaxRequests
  /\ LET g == ApplyParameters(request.kind,
                              DeepClone(request.kind, Graph(template, heap)), options)
     IN /\ workflow' = g.root
        /\ heap' = g.heap
  /\ request' = [request EXCEPT !.options = options]
  /\ requests' = requests + 1
  /\ UNCHANGED <<template, template0, batchVars, clientVars, interruptVars, otherVars>>

NextGraph == \E options \in OptionsOf(request.kind) : PrepareGraph(options)

InitGraph == BatchInit /\ GraphInit /\ ClientInit /\ AssetsIdle /\ RemoteIdle /\ JigsawIdle
             /\ SdxlIdle /\ Sam3Idle

SpecGraph == InitGraph /\ [][NextGraph]_vars

\* ------------------------------------------------------------ runSdxlWithPrompts
\* the prompt lists a caller passes
PromptLists == UNION {[1..n -> {"a cat", "a dog"}] : n \in 0..MaxPrompts}
\* What GET /src/assets/sdxl_simple_example.json may answer: a non-success
\* status, a body that is no JSON, the JSON text null, or a graph of any shape
\* (the asset is served by the host of the app).
AssetReplies ==
  { [ok |-> FALSE, status |-> st] : st \in {403, 404, 500} }
    \cup { [ok |-> TRUE, status |-> 200, text |-> "<html>"],
           [ok |-> TRUE, status |-> 200, json |-> Null] }
    \cup { [ok |-> TRUE, status |-> 200, shape |-> sh] : sh \in TemplateShapes("sdxl") }
\* comfy.ts 237: new Error(`Failed to load sdxl workflow asset: ${res.status}`)
AssetMissing(status) ==
  [isError |-> TRUE,
   message |-> "Failed to load sdxl workflow asset: " \o ToString(status)]
\* comfy.ts 238: the value res.json() resolves with when the body is null
JsonNull == [null |-> TRUE]
\* comfy.ts 245: copy['6'] on the copy of null
NullGraphError ==
  [isError |-> TRUE, message |-> "Cannot read properties of null (reading '6')"]
\* the POST /prompt replies of a remote that hands out an id with every JSON body
SdxlPostReplies(job) == {r \in PostReplies(job) : IsJson(r) => Queues(r)}
\* outputs the history endpoint may hold for a finished SDXL job
SdxlOutputs == { << <<"60", <<PngA>> >> >>, << <<"9", <<Mp4>> >>, <<"60", <<PngB>> >> >> }
\* the errors waitUntilFinishedWS and waitForOutputs may throw
WaitErrors == {WsErrorEvent, TimeoutError, FetchFailed}
\* a variant of the catch that leaves the run without assets
SdxlWaitFailedBare(rs, j) == rs
\* comfy.ts 261-263: catch { r.assets = [] }
SdxlWaitFailed(rs, j) ==
  [rs EXCEPT ![j] = [prompt |-> @.prompt, promptId |-> @.promptId, assets |-> <<>>]]
\* comfy.ts 258-260: r.assets = buildAssetUrls(outs)
SdxlWaitDone(rs, j, outs) ==
  [rs EXCEPT ![j] = [prompt |-> @.prompt, promptId |-> @.promptId,
                          assets |-> buildAssetUrls(outs)]]
\* comfy.ts 255-257, 266 with 52: the head of one iteration of the second loop
\* (waitUntilFinishedWS creates its WebSocket), or the return
SdxlNextWait(s) ==
  IF s.j < Len(s.results)
  THEN [s EXCEPT !.pc = "tracking", !.j = s.j + 1, !.awaited = Append(@, s.j + 1)]
  ELSE [s EXCEPT !.pc = "returned", !.value = s.results]
\* comfy.ts 242-248 with 43-49, 33: the head of one iteration of the first loop:
\* the copy of the graph gets the prompt as the text of those of the nodes 6 and
\* 15 that have inputs, and is POSTed with the client id; after the last prompt,
\* the return of line 252 or the second loop
SdxlNextSubmit(s) ==
  IF s.k < Len(s.prompts)
  THEN IF s.baseGraph = JsonNull
       THEN [s EXCEPT !.pc = "threw", !.value = <<NullGraphError>>]
       ELSE LET copy == ApplySdxl(DeepClone("sdxl", s.baseGraph),
                                  [p |-> s.prompts[s.k + 1]])
            IN [s EXCEPT !.pc = "submit", !.k = s.k + 1,
                         !.sent = Append(@, [prompt |-> Value(copy),
                                             client_id |-> clientId])]
  ELSE IF ~s.wait
  THEN [s EXCEPT !.pc = "returned", !.value = s.results]
  ELSE SdxlNextWait(s)
\* comfy.ts 46, 52: the request the step that led to s has sent last, if it
\* sent one that carries the client id
SdxlWire(s) ==
  CASE s.pc = "submit" -> Sent("queuePromptWS", clientId)
    [] s.pc = "tracking" -> Sent("waitUntilFinishedWS", clientId)
    [] OTHER -> wire
sdxlRest == <<batchVars, graphVars, clientId, streamVars, submitVars, interruptVars,
              assetVars, remote, jigsawVars, sam3>>
\* comfy.ts 234-236: the call, up to the fetch of the workflow asset
runSdxlWithPrompts(prompts, wait) ==
  /\ sdxl.pc = "idle"
  /\ sdxl' = [pc |-> "asset", prompts |-> prompts, wait |-> wait, k |-> 0, j |-> 0,
              res |-> NoResponse, baseGraph |-> JsonNull,
              results |-> <<>>, sent |-> <<>>, issued |-> <<>>, awaited |-> <<>>,
              failed |-> {}, nextJob |-> 1, value |-> <<>>]
  /\ UNCHANGED <<sdxlRest, wire>>
\* comfy.ts 236-238: the asset request is answered: a non-success status throws,
\* with the status in the message; otherwise the body is read
SdxlAssetResolves(reply) ==
  /\ sdxl.pc = "asset"
  /\ sdxl' = IF reply.ok THEN [sdxl EXCEPT !.pc = "assetBody", !.res = reply]
             ELSE [sdxl EXCEPT !.pc = "threw", !.value = <<AssetMissing(reply.status)>>]
  /\ UNCHANGED <<sdxlRest, wire>>
\* comfy.ts 236: the asset request itself fails (network error)
SdxlAssetRejects ==
  /\ sdxl.pc = "asset"
  /\ sdxl' = [sdxl EXCEPT !.pc = "threw", !.value = <<FetchFailed>>]
  /\ UNCHANGED <<sdxlRest, wire>>
\* comfy.ts 238-248: the body of the asset is read: a body that is no JSON
\* throws; otherwise the first loop starts
SdxlAssetLoaded ==
  /\ sdxl.pc = "assetBody"
  /\ sdxl' =
       IF "text" \in DOMAIN sdxl.res
       THEN [sdxl EXCEPT !.pc = "threw", !.value = <<JsonSyntaxError>>,
                         !.res = NoResponse]
       ELSE SdxlNextSubmit(
              [sdxl EXCEPT !.res = NoResponse,
                           !.baseGraph = IF "shape" \in DOMAIN sdxl.res
                                         THEN LoadTemplate("sdxl", sdxl.res.shape)
                                         ELSE JsonNull])
  /\ wire' = SdxlWire(sdxl')
  /\ UNCHANGED sdxlRest
\* comfy.ts 33-37: the remote answers the POST
SdxlPostResolves(reply) ==
  /\ sdxl.pc = "submit"
  /\ sdxl' = [sdxl EXCEPT !.pc = "post", !.res = reply]
  /\ UNCHANGED <<sdxlRest, wire>>
\* comfy.ts 33, 248: the POST itself fails (network error)
SdxlPostRejects ==
  /\ sdxl.pc = "submit"
  /\ sdxl' = [sdxl EXCEPT !.pc = "threw", !.value = <<FetchFailed>>]
  /\ UNCHANGED <<sdxlRest, wire>>
\* comfy.ts 38-39, 248-257: the body of the reply is read: a non-success status
\* or a body that is no JSON throws; otherwise the result is pushed and the
\* loop goes on
SdxlQueued ==
  /\ sdxl.pc = "post"
  /\ sdxl' =
       IF sdxl.res.ok /\ IsJson(sdxl.res)
       THEN SdxlNextSubmit(
              [sdxl EXCEPT !.results = Append(@, [prompt |-> sdxl.prompts[sdxl.k],
                                                  promptId |-> sdxl.res.prompt_id]),
                           !.issued = Append(@, sdxl.res.prompt_id),
                           !.nextJob = @ + 1,
                           !.res = NoResponse])
       ELSE [sdxl EXCEPT !.pc = "threw", !.res = NoResponse,
                         !.value = <<IF sdxl.res.ok THEN JsonSyntaxError
                                     ELSE PostFailed("/prompt", sdxl.res)>>]
  /\ wire' = SdxlWire(sdxl')
  /\ UNCHANGED sdxlRest
\* comfy.ts 257-258: waitUntilFinishedWS resolved; waitForOutputs starts
SdxlTracked ==
  /\ sdxl.pc = "tracking"
  /\ sdxl' = [sdxl EXCEPT !.pc = "polling"]
  /\ UNCHANGED <<sdxlRest, wire>>
\* comfy.ts 258-259: waitForOutputs resolved
SdxlOutputsReady(outs) ==
  /\ sdxl.pc = "polling"
  /\ sdxl' = SdxlNextWait([sdxl EXCEPT !.results = SdxlWaitDone(@, sdxl.j, outs)])
  /\ wire' = SdxlWire(sdxl')
  /\ UNCHANGED sdxlRest
\* comfy.ts 261-263: waitUntilFinishedWS or waitForOutputs threw
SdxlWaitThrows(err) ==
  /\ sdxl.pc \in {"tracking", "polling"}
  /\ err \in {TimeoutError, FetchFailed} => sdxl.pc = "polling"
  /\ err = WsErrorEvent => sdxl.pc = "tracking"
  /\ sdxl' = SdxlNextWait([sdxl EXCEPT !.results = SdxlWaitFailed(@, sdxl.j),
                                       !.failed = @ \cup {sdxl.j}])
  /\ wire' = SdxlWire(sdxl')
  /\ UNCHANGED sdxlRest
NextSdxl ==
  \/ \E prompts \in PromptLists, wait \in BOOLEAN : runSdxlWithPrompts(prompts, wait)
  \/ sdxl.pc = "asset" /\ \E reply \in AssetReplies : SdxlAssetResolves(reply)
  \/ SdxlAssetRejects
  \/ SdxlAssetLoaded
  \/ sdxl.pc = "submit" /\ \E reply \in SdxlPostReplies(sdxl.nextJob) : SdxlPostResolves(reply)
  \/ SdxlPostRejects
  \/ SdxlQueued
  \/ SdxlTracked
  \/ \E outs \in SdxlOutputs : SdxlOutputsReady(outs)
  \/ \E err \in WaitErrors : SdxlWaitThrows(err)
SpecSdxl == Init /\ [][NextSdxl]_vars

\* ------------------------------------------------------------ runSAM3Segmentation
\* what GET /comfy/history/<job> may answer to getHistory: a non-success status,
\* a body that is no JSON, or a record from job ids to history entries
Sam3Outputs ==
  { <<>>,
    << <<"20", <<PngA>> >> >>,
    << <<"20", <<PngB, PngA>> >> >>,
    << <<"9", <<PngB>> >>, <<"20", <<PngA, Mp4>> >> >> }
Sam3HistoryReplies(job) ==
  { [ok |-> FALSE, status |-> 404],
    [ok |-> TRUE, status |-> 200, text |-> "<html>"],
    [ok |-> TRUE, status |-> 200, data |-> <<>>],
    [ok |-> TRUE, status |-> 200, data |-> [j \in {job} |-> [prompt |-> <<>>]]] }
    \cup { [ok |-> TRUE, status |-> 200,
           data |-> [j \in {job} |-> [prompt |-> <<>>, outputs |-> o]]] :
             o \in Sam3Outputs }
\* comfyui.ts 262-263: assets.filter(a => a.node === '20' && a.type === 'image')
\* .map(a => a.url)
RECURSIVE node20Images(_)
node20Images(assets) ==
  IF assets = <<>> THEN <<>>
  ELSE (IF Head(assets).node = "20" /\ Head(assets).type = "image"
        THEN <<Head(assets).url>> ELSE <<>>)
         \o node20Images(Tail(assets))
\* comfyui.ts 255-264: history?.[prompt_id]?.outputs, and the images built from
\* it (getHistory returns null on a non-success status)
Sam3Images(reply, job) ==
  IF PollReturns(reply, job)
  THEN node20Images(buildAssetUrls(PollValue(reply, job)))
  ELSE <<>>
\* a call takes the first free slot
FreeSam3(c) == sam3[c].pc = "idle" /\ \A q \in 1..(c - 1) : sam3[q].pc # "idle"
sam3Rest == <<batchLocals, pc, trackerVars, pollVars, interruptVars, assetVars,
              remote, jigsawVars, sdxl, streamVars, submitVars, clientId>>
\* comfyui.ts 225-248: the call, up to the await of queuePromptWS: the flags are
\* set, the template is cloned and the request's parameters written into the
\* clone, and the clone is POSTed
runSAM3Segmentation(c, options) ==
  /\ FreeSam3(c)
  /\ request.kind = "sam3"
  /\ requests < MaxRequests
  /\ isProcessing' = TRUE
  /\ comfyError' = Null
  /\ currentProgress' = "Starting SAM3 Segmentation..."
  /\ LET g == ApplyParameters("sam3", DeepClone("sam3", Graph(template, heap)), options)
     IN /\ workflow' = g.root
        /\ heap' = g.heap
  /\ request' = [request EXCEPT !.options = options]
  /\ requests' = requests + 1
  /\ wire' = Sent("queuePromptWS", clientId)
  /\ sam3' = [sam3 EXCEPT ![c] = [NoSam3 EXCEPT !.pc = "queue"]]
  /\ UNCHANGED <<sam3Rest, generatedImages, nextJob, template, template0>>
\* comfy.ts 33-37: the remote answers the POST
Sam3PostResolves(c, reply) ==
  /\ sam3[c].pc = "queue"
  /\ sam3' = [sam3 EXCEPT ![c].pc = "post", ![c].res = reply]
  /\ nextJob' = IF Queues(reply) THEN nextJob + 1 ELSE nextJob
  /\ UNCHANGED <<sam3Rest, comfyStore, graphVars, wire>>
\* comfyui.ts 269-276: catch and finally; the call rethrows
Sam3Throws(c, err) ==
  /\ comfyError' = "Failed to run SAM3 segmentation"
  /\ isProcessing' = FALSE
  /\ currentProgress' = ""
  /\ sam3' = [sam3 EXCEPT ![c].pc = "idle", ![c].res = NoResponse,
                          ![c].result = [state |-> "threw", err |-> err]]
  /\ UNCHANGED <<sam3Rest, generatedImages, nextJob, graphVars, wire>>
\* comfy.ts 33: the request itself fails (network error)
Sam3PostThrows(c) ==
  /\ sam3[c].pc = "queue"
  /\ Sam3Throws(c, FetchFailed)
\* comfy.ts 38-39: a non-success status, or a body that is no JSON
Sam3QueueFail(c) ==
  /\ sam3[c].pc = "post" /\ ~(sam3[c].res.ok /\ IsJson(sam3[c].res))
  /\ Sam3Throws(c, IF sam3[c].res.ok THEN JsonSyntaxError
                   ELSE PostFailed("/prompt", sam3[c].res))
\* comfy.ts 39, comfyui.ts 248-252, comfy.ts 52-56: postJSON returns the body;
\* waitUntilFinishedWS creates its WebSocket
Sam3QueueOk(c) ==
  /\ sam3[c].pc = "post" /\ sam3[c].res.ok /\ IsJson(sam3[c].res)
  /\ currentProgress' = "Processing..."
  /\ wire' = Sent("waitUntilFinishedWS", clientId)
  /\ sam3' = [sam3 EXCEPT ![c].pc = "tracking", ![c].promptId = sam3[c].res.prompt_id,
                          ![c].res = NoResponse]
  /\ UNCHANGED <<sam3Rest, isProcessing, comfyError, generatedImages, nextJob, graphVars>>
\* comfyui.ts 252-255, comfy.ts 221: waitUntilFinishedWS resolved; getHistory
\* sends its request
Sam3Tracked(c) ==
  /\ sam3[c].pc = "tracking"
  /\ sam3' = [sam3 EXCEPT ![c].pc = "history"]
  /\ UNCHANGED <<sam3Rest, comfyStore, nextJob, graphVars, wire>>
\* comfy.ts 53-56: the connection failed before it opened
Sam3TrackThrows(c) ==
  /\ sam3[c].pc = "tracking"
  /\ Sam3Throws(c, WsErrorEvent)
\* comfy.ts 221: the history endpoint answers
Sam3HistoryResolves(c, reply) ==
  /\ sam3[c].pc = "history"
  /\ sam3' = [sam3 EXCEPT ![c].pc = "body", ![c].res = reply]
  /\ UNCHANGED <<sam3Rest, comfyStore, nextJob, graphVars, wire>>
\* comfy.ts 221: the request itself fails (network error)
Sam3HistoryThrows(c) ==
  /\ sam3[c].pc = "history"
  /\ Sam3Throws(c, FetchFailed)
\* comfy.ts 223: the body of a success reply is no JSON
Sam3BodyThrows(c) ==
  /\ sam3[c].pc = "body" /\ sam3[c].res.ok /\ "data" \notin DOMAIN sam3[c].res
  /\ Sam3Throws(c, JsonSyntaxError)
\* comfy.ts 222-223, comfyui.ts 255-267, 272-275: the images of node 20 replace
\* generatedImages; the call returns, and its finally block runs
Sam3Returns(c) ==
  /\ sam3[c].pc = "body" /\ (sam3[c].res.ok => "data" \in DOMAIN sam3[c].res)
  /\ LET images == Sam3Images(sam3[c].res, sam3[c].promptId)
     IN /\ generatedImages' = images
        /\ sam3' = [sam3 EXCEPT ![c].pc = "idle", ![c].res = NoResponse,
                                ![c].result = [state |-> "returned",
                                               promptId |-> sam3[c].promptId,
                                               images |-> images]]
  /\ isProcessing' = FALSE
  /\ currentProgress' = ""
  /\ UNCHANGED <<sam3Rest, comfyError, nextJob, graphVars, wire>>

\* ------------------------------------------------------------ checkConnection, uploadImage, getHistory
\* what GET /system_stats may answer
StatsReplies == { [ok |-> TRUE, status |-> 200], [ok |-> FALSE, status |-> 500] }
\* comfyui.ts 325-327: the call, up to the await of GET /system_stats
checkConnection ==
  /\ storeCalls["checkConnection"].pc = "idle"
  /\ storeCalls' = [storeCalls EXCEPT !["checkConnection"] =
                      [NoStoreCall EXCEPT !.pc = "stats"]]
  /\ UNCHANGED <<storeFrame, comfyError, interruptPc, queue, isConnected, history,
                 updates>>
\* comfyui.ts 327-334, 343-344: the request is answered: isConnected takes the
\* status; when connected updateQueue sends GET /queue, otherwise the error is
\* cleared and the call returns false
checkConnectionResolves(reply) ==
  /\ storeCalls["checkConnection"].pc = "stats"
  /\ isConnected' = reply.ok
  /\ IF reply.ok
     THEN /\ storeCalls' = [storeCalls EXCEPT !["checkConnection"].pc = "queue"]
          /\ updates' = QueueRequested("checkConnection")
          /\ UNCHANGED comfyError
     ELSE /\ storeCalls' = StoreReturned("checkConnection", FALSE)
          /\ comfyError' = Null
          /\ UNCHANGED updates
  /\ UNCHANGED <<storeFrame, interruptPc, queue, history>>
\* comfyui.ts 327, 335-339: the request itself fails
checkConnectionRejects ==
  /\ storeCalls["checkConnection"].pc = "stats"
  /\ comfyError' = "Failed to connect to ComfyUI"
  /\ isConnected' = FALSE
  /\ storeCalls' = StoreReturned("checkConnection", FALSE)
  /\ UNCHANGED <<storeFrame, interruptPc, queue, history, updates>>
\* what POST /upload/image may answer
UploadReplies ==
  { [ok |-> FALSE, status |-> 500, text |-> "no"],
    [ok |-> TRUE, status |-> 200, text |-> "<html>"],
    [ok |-> TRUE, status |-> 200, data |-> [name |-> "cat.png"]],
    [ok |-> TRUE, status |-> 200, data |-> [name |-> "cat (1).png", subfolder |-> "in"]] }
\* comfy.ts 165: new Error(`Upload failed: ${res.status} ${await res.text()}`)
UploadFailed(reply) ==
  [isError |-> TRUE,
   message |-> "Upload failed: " \o ToString(reply.status) \o " " \o reply.text]
\* comfy.ts 167: { filename: data.name, subfolder: data.subfolder ?? '' }
Uploaded(data) ==
  [filename |-> data.name,
   subfolder |-> IF Get(data, "subfolder") \in {Undefined, Null} THEN ""
                 ELSE data.subfolder]
\* comfyui.ts 367-369 with comfy.ts 160-164: the call, up to the await of the POST
uploadImage ==
  /\ storeCalls["uploadImage"].pc = "idle"
  /\ storeCalls' = [storeCalls EXCEPT !["uploadImage"] =
                      [NoStoreCall EXCEPT !.pc = "post"]]
  /\ UNCHANGED <<storeFrame, comfyError, interruptPc, queue, isConnected, history,
                 updates>>
\* comfy.ts 164-166: the remote answers the POST; the body is read
UploadResolves(reply) ==
  /\ storeCalls["uploadImage"].pc = "post"
  /\ storeCalls' = [storeCalls EXCEPT !["uploadImage"].pc = "body",
                                      !["uploadImage"].res = reply]
  /\ UNCHANGED <<storeFrame, comfyError, interruptPc, queue, isConnected, history,
                 updates>>
\* comfyui.ts 371-375: catch of uploadImage; the call rethrows
UploadThrows(err) ==
  /\ comfyError' = "Failed to upload image"
  /\ storeCalls' = StoreThrew("uploadImage", err)
  /\ UNCHANGED <<storeFrame, interruptPc, queue, isConnected, history, updates>>
\* comfy.ts 164: the POST itself fails (network error)
UploadRejects ==
  /\ storeCalls["uploadImage"].pc = "post"
  /\ UploadThrows(FetchFailed)
\* comfy.ts 165-166: a non-success status, or a body that is no JSON
UploadFails ==
  /\ storeCalls["uploadImage"].pc = "body"
  /\ "data" \notin DOMAIN storeCalls["uploadImage"].res
  /\ UploadThrows(IF storeCalls["uploadImage"].res.ok THEN JsonSyntaxError
                  ELSE UploadFailed(storeCalls["uploadImage"].res))
\* comfy.ts 166-167, comfyui.ts 369-370: the call returns the place of the file
UploadReturns ==
  /\ storeCalls["uploadImage"].pc = "body"
  /\ "data" \in DOMAIN storeCalls["uploadImage"].res
  /\ storeCalls' = StoreReturned("uploadImage", Uploaded(storeCalls["uploadImage"].res.data))
  /\ UNCHANGED <<storeFrame, comfyError, interruptPc, queue, isConnected, history,
                 updates>>
\* what GET /history/<job> may answer to the store's getHistory: the replies of
\* Sam3HistoryReplies, or the JSON text null
NullReply == [ok |-> TRUE, status |-> 200, null |-> TRUE]
\* comfyui.ts 468-470 with comfy.ts 220-221: the call, up to the await of the GET
getHistory ==
  /\ storeCalls["getHistory"].pc = "idle"
  /\ storeCalls' = [storeCalls EXCEPT !["getHistory"] =
                      [NoStoreCall EXCEPT !.pc = "fetch"]]
  /\ UNCHANGED <<storeFrame, comfyError, interruptPc, queue, isConnected, history,
                 updates>>
\* comfy.ts 221-223, comfyui.ts 470-474: the request is answered: a non-success
\* status makes the service return null, which the store returns; otherwise the
\* body is read
GetHistoryResolves(reply) ==
  /\ storeCalls["getHistory"].pc = "fetch"
  /\ storeCalls' = IF reply.ok
                   THEN [storeCalls EXCEPT !["getHistory"].pc = "body",
                                           !["getHistory"].res = reply]
                   ELSE StoreReturned("getHistory", Null)
  /\ UNCHANGED <<storeFrame, comfyError, interruptPc, queue, isConnected, history,
                 updates>>
\* comfyui.ts 475-479: catch of getHistory; the call rethrows
GetHistoryThrows(err) ==
  /\ comfyError' = "Failed to get history"
  /\ storeCalls' = StoreThrew("getHistory", err)
  /\ UNCHANGED <<storeFrame, interruptPc, queue, isConnected, history, updates>>
\* comfy.ts 221: the request itself fails (network error)
GetHistoryRejects ==
  /\ storeCalls["getHistory"].pc = "fetch"
  /\ GetHistoryThrows(FetchFailed)
\* comfy.ts 223: the body of a success reply is no JSON
GetHistoryBodyThrows ==
  /\ storeCalls["getHistory"].pc = "body"
  /\ "text" \in DOMAIN storeCalls["getHistory"].res
  /\ GetHistoryThrows(JsonSyntaxError)
\* comfy.ts 223, comfyui.ts 470-474: the body is JSON: a record (an empty one
\* included) becomes history.value and is returned; null is returned as it is
GetHistoryReturns ==
  /\ storeCalls["getHistory"].pc = "body"
  /\ "text" \notin DOMAIN storeCalls["getHistory"].res
  /\ IF "data" \in DOMAIN storeCalls["getHistory"].res
     THEN /\ history' = storeCalls["getHistory"].res.data
          /\ storeCalls' = StoreReturned("getHistory", storeCalls["getHistory"].res.data)
     ELSE /\ storeCalls' = StoreReturned("getHistory", Null)
          /\ UNCHANGED history
  /\ UNCHANGED <<storeFrame, comfyError, interruptPc, queue, isConnected, updates>>

\* Calls of runSAM3Segmentation, overlapping or not, and of clearGeneratedImages.
Sam3Options == OptionsOf("sam3")
NextStore ==
  \/ \E c \in Calls, options \in Sam3Options : runSAM3Segmentation(c, options)
  \/ \E c \in Calls, reply \in PostReplies(nextJob) : Sam3PostResolves(c, reply)
  \/ \E c \in Calls : Sam3PostThrows(c)
  \/ \E c \in Calls : Sam3QueueFail(c)
  \/ \E c \in Calls : Sam3QueueOk(c)
  \/ \E c \in Calls : Sam3Tracked(c)
  \/ \E c \in Calls : Sam3TrackThrows(c)
  \/ \E c \in Calls : \E reply \in Sam3HistoryReplies(sam3[c].promptId) :
       Sam3HistoryResolves(c, reply)
  \/ \E c \in Calls : Sam3HistoryThrows(c)
  \/ \E c \in Calls : Sam3BodyThrows(c)
  \/ \E c \in Calls : Sam3Returns(c)
  \/ clearGeneratedImages
InitStore == InitGraph /\ request.kind = "sam3"
SpecStore == InitStore /\ [][NextStore]_vars

\* The operations of the comfyui store that send one request or two, with calls
\* of interrupt, at most MaxOverlap of them in flight at once.
StoreCallsInFlight ==
  Cardinality({op \in StoreOps : storeCalls[op].pc # "idle"})
    + (IF interruptPc # "idle" THEN 1 ELSE 0)
    + (IF updates["direct"].pc # "idle" THEN 1 ELSE 0)
NextComfyStore ==
  \/ StoreCallsInFlight < MaxOverlap /\ checkConnection
  \/ \E reply \in StatsReplies : checkConnectionResolves(reply)
  \/ checkConnectionRejects
  \/ StoreCallsInFlight < MaxOverlap /\ updateQueue
  \/ \E caller \in QueueCallers, reply \in QueueReplies :
       updateQueueResolves(caller, reply)
  \/ \E caller \in QueueCallers : updateQueueRejects(caller)
  \/ \E caller \in QueueCallers : updateQueueSettles(caller)
  \/ StoreCallsInFlight < MaxOverlap /\ uploadImage
  \/ \E reply \in UploadReplies : UploadResolves(reply)
  \/ UploadRejects
  \/ UploadFails
  \/ UploadReturns
  \/ StoreCallsInFlight < MaxOverlap /\ getHistory
  \/ \E reply \in Sam3HistoryReplies(1) \cup {NullReply} : GetHistoryResolves(reply)
  \/ GetHistoryRejects
  \/ GetHistoryBodyThrows
  \/ GetHistoryReturns
  \/ StoreCallsInFlight < MaxOverlap /\ interrupt
  \/ interruptResolves
  \/ interruptThrows
SpecComfyStore == Init /\ [][NextComfyStore]_vars

\* ============================================================ claims: graph
TemplateGraph == Graph(template, heap)
WorkflowGraph == Graph(workflow, heap)
\* the request parameter written at an injection point
ParamOf(kind, node, key) ==
  CASE kind = "qwen" /\ node = "78" /\ key = "image" -> "imageFilename"
    [] kind = "qwen" /\ node = "115:111" /\ key = "prompt" -> "positivePrompt"
    [] kind = "qwen" /\ node = "115:110" /\ key = "prompt" -> "negativePrompt"
    [] kind = "qwen" /\ node = "115:3" /\ key = "seed" -> "seed"
    [] kind = "qwen" /\ node = "115:3" /\ key = "steps" -> "steps"
    [] kind = "sam3" /\ node = "1" /\ key = "image" -> "imageFilename"
    [] kind = "sam3" /\ node = "12" /\ key = "prompt" -> "prompt"
    [] kind = "sdxl" /\ node \in {"6", "15"} /\ key = "text" -> "p"
    [] OTHER -> "(none)"
HasInputsValue(v, node) == node \in DOMAIN v /\ "inputs" \in DOMAIN v[node]

\* C8: preparing graphs never changes the template: after any number of requests
\* the template is deep-equal to what was loaded.
C8_TemplateNeverChanges == Value(TemplateGraph) = template0
\* two requests were prepared and the last one built a graph unlike the template
C8_Witness == requests >= 2 /\ Value(WorkflowGraph) # template0

\* C9: the graph of a request differs from the template only at injection points
\* whose parameter the request holds; an omitted optional parameter leaves the
\* template's value in place.
C9_OmittedKeepsTemplate ==
  requests > 0 =>
    LET w == Value(WorkflowGraph)
    IN /\ DOMAIN w = DOMAIN template0
       /\ \A n \in DOMAIN w :
            /\ w[n].class_type = template0[n].class_type
            /\ HasInputsValue(w, n) = HasInputsValue(template0, n)
            /\ HasInputsValue(w, n) =>
                 \A k \in DOMAIN w[n].inputs \cup DOMAIN template0[n].inputs :
                   \/ /\ k \in DOMAIN w[n].inputs
                      /\ k \in DOMAIN template0[n].inputs
                      /\ w[n].inputs[k] = template0[n].inputs[k]
                   \/ ParamOf(request.kind, n, k) \in DOMAIN request.options

\* C10: the graph of a request has exactly the node ids of the template; a
\* parameter whose node the template lacks adds no node.
C10_SameNodeIds ==
  requests > 0 =>
    /\ DOMAIN workflow = DOMAIN template0
    /\ DOMAIN Value(WorkflowGraph) = DOMAIN Value(TemplateGraph)
\* a request was prepared from a template that lacks one of the nodes written to
C10_Witness ==
  /\ requests > 0
  /\ \E n \in Range(NodeOrder(request.kind)) :
       TargetKeys(request.kind, n) # {} /\ n \notin DOMAIN template0

\* C11: an injection point whose node exists but whose inputs lack the target key
\* is skipped: the graph of a request has, on every node, exactly the input keys
\* the template has there.
C11_MissingKeySkipped ==
  requests > 0 =>
    \A n \in DOMAIN template0 :
      HasInputsValue(template0, n) =>
        /\ HasInputsValue(Value(WorkflowGraph), n)
        /\ DOMAIN Value(WorkflowGraph)[n].inputs = DOMAIN template0[n].inputs

====
